---------------------------- MODULE Spec2Model ----------------------------
(***************************************************************************)
(* Model of the c15t docs-preview GitHub action: the retry executor        *)
(* (utils/errors.ts), the policy and change gates (steps/changes.ts), the  *)
(* deployment step with its GitHub deployment recorder (steps/deployment)  *)
(* and the sticky PR comment manager (steps/comments, github/pr-comment).  *)
(*                                                                         *)
(* Strings are sequences of atomic fragments (tokens); an optional value   *)
(* is the empty sequence (undefined) or a one-element sequence.            *)
(***************************************************************************)
EXTENDS Integers, Sequences, FiniteSets, TLC

VARIABLES
    \* ---- executeWithRetry (utils/errors.ts) ----
    options,      \* the `options` argument: a number or a RetryOptions object
    rpc,          \* position inside executeWithRetry
    attempt,      \* the loop counter `attempt`
    inFlight,     \* invocations of `operation` started and not yet settled
    outcomes,     \* outcome of every settled invocation, in order
    caught,       \* the error `e` bound by the catch clause (optional)
    last,         \* the variable `last` (optional ActionableError)
    errLog,       \* the core.error lines emitted, in order
    sleeps,       \* the calls of the sleeper: delay and completion, in order
    thrown,       \* the error executeWithRetry threw (optional)
    result,       \* the value executeWithRetry returned (optional)
    \* ---- performVercelDeployment (steps/deployment) ----
    ctx,          \* github.context: eventName, ref, head_ref, payload
    cfg,          \* the action inputs (config/inputs.ts), fixed for the run
    dpc,          \* position inside performVercelDeployment
    gate,         \* "pending", "go" (past both gates) or the reason of the skip
    allowedByPolicy,  \* the constant of that name (optional)
    changeSet,    \* what the changed-files call returned (optional)
    relevant,     \* the constant `relevant` (optional)
    branch,       \* the constant `branch`
    targetHint,   \* the variable `targetHint`
    environmentName,  \* the constant `environmentName`
    deploymentId, \* the constant `deploymentId` (optional)
    ghDeployments,    \* deployment records in the repository, in order
    statusCalls,  \* createDeploymentStatus calls made, in order
    warnings,     \* core.warning lines, in order
    deploymentUrlOutput,  \* the output `deployment_url` (optional)
    failedMsg,    \* the core.setFailed messages, in order
    dret,         \* the value performVercelDeployment returned (optional)
    \* ---- the sticky PR comment (steps/comments, github/pr-comment) ----
    ccfg,         \* the comment inputs and the authenticated login
    prComments,   \* the comments of the pull request, oldest first
    runs,         \* per run of ensureComment: its position and locals
    \* ---- one call of a helper function ----
    call,         \* the function called and its arguments
    ret,          \* what the call returned or threw (optional)
    \* ---- deployToVercel (deploy/vercel-client) ----
    vopts,        \* the alias options and the resolved branch of the call
    vpc,          \* where deployToVercel stands
    response,     \* the response to the deployment request (optional)
    resultUrl,    \* the local `url`
    canonicalSet, \* the local `canonicalSet`
    aliasIdx,     \* position of the loop over allAliases
    aliasLog,     \* the alias requests made, in order, with their outcome
    vret,         \* what deployToVercel returned or threw (optional)
    \* ---- run (main.ts) ----
    minputs,      \* the inputs run reads itself: post_skip_comment, ...
    mpc,          \* position inside run
    stages        \* the API calls and stage calls run made itself, in order

retryVars == <<options, rpc, attempt, inFlight, outcomes, caught, last,
               errLog, sleeps, thrown, result>>

deployVars == <<ctx, cfg, dpc, gate, allowedByPolicy, changeSet, relevant,
                branch, targetHint, environmentName, deploymentId,
                ghDeployments, statusCalls, warnings, deploymentUrlOutput,
                failedMsg, dret>>

commentVars == <<ccfg, prComments, runs>>

callVars == <<call, ret>>

vercelVars == <<vopts, vpc, response, resultUrl, canonicalSet, aliasIdx,
                aliasLog, vret>>

mainVars == <<minputs, mpc, stages>>

\* run is not being executed
MainIdle ==
    /\ minputs = [postSkipComment |-> FALSE, commentOnPush |-> FALSE,
                  skipMessage |-> <<>>, message |-> <<>>]
    /\ mpc = "idle"
    /\ stages = <<>>

\* no helper function is being called on its own
CallIdle ==
    /\ call = [fn |-> "none"]
    /\ ret = <<>>

\* deployToVercel is not being called on its own
VercelIdle ==
    /\ vopts = [aliasDomain |-> <<>>, aliasDomains |-> <<>>,
                aliasBranch |-> <<>>, githubOutput |-> FALSE,
                env |-> [GITHUB_REF |-> <<>>, GITHUB_HEAD_REF |-> <<>>,
                         GITHUB_PR_NUMBER |-> <<>>]]
    /\ vpc = "idle"
    /\ response = <<>>
    /\ resultUrl = <<>>
    /\ canonicalSet = FALSE
    /\ aliasIdx = 0
    /\ aliasLog = <<>>
    /\ vret = <<>>

\* everything executeWithRetry does not touch
outsideRetry == <<deployVars, commentVars, callVars, vercelVars, mainVars>>

\* everything performVercelDeployment touches only through executeWithRetry
outsideDeploy == <<retryVars, commentVars, callVars, vercelVars, mainVars>>

\* everything ensureComment does not touch
outsideComments == <<retryVars, deployVars, callVars, vercelVars, mainVars>>

\* everything a helper function called on its own does not touch
outsideCall == <<retryVars, deployVars, commentVars, vercelVars, mainVars>>

\* everything run touches neither itself nor through the steps it calls
outsideMain == <<callVars, vercelVars>>

\* everything deployToVercel called on its own does not touch
outsideVercel == <<retryVars, deployVars, commentVars, callVars, mainVars>>

vars == <<retryVars, deployVars, commentVars, callVars, vercelVars, mainVars>>

----------------------------------------------------------------------------
(* Optional values and small helpers                                        *)

None == <<>>

Some(x) == <<x>>

\* a ?? d
Coalesce(o, d) == IF o = None THEN d ELSE o[1]

Min(a, b) == IF a <= b THEN a ELSE b

SeqToSet(s) == {s[i] : i \in 1..Len(s)}

----------------------------------------------------------------------------
(* Bounds                                                                   *)

\* largest maxRetries an option value carries
MaxRetriesBound == 4

----------------------------------------------------------------------------
(* Error classification: ErrorHandler.handleVercel                          *)

\* String.prototype.toLowerCase on one fragment of a message
LowerToken(t) ==
    CASE t = "Project not found" -> "project not found"
      [] t = "Rate limit"        -> "rate limit"
      [] t = "Build failed"      -> "build failed"
      [] t = "PROJECT NOT FOUND" -> "project not found"
      [] t = "RATE LIMIT"        -> "rate limit"
      [] t = "Timeout"           -> "timeout"
      [] t = "GitHub-Actions"    -> "github-actions"
      [] t = "ConsentDotIO"      -> "consentdotio"
      [] t = "[BOT]"             -> "[bot]"
      [] OTHER                   -> t

toLowerCase(s) == [i \in 1..Len(s) |-> LowerToken(s[i])]

\* String.prototype.includes for a phrase that is one fragment
includes(s, phrase) == \E i \in 1..Len(s) : s[i] = phrase

\* a classification that tests for 'rate limit' before 'project not found'
handleVercelRateLimitFirst(message) ==
    IF includes(toLowerCase(message), "rate limit") THEN
        [type |-> "api_limit", message |-> message,
         suggestion |-> "wait-before-retrying",
         actionItems |-> <<"wait-10-15-minutes", "enable-only-if-changed">>,
         retryable |-> TRUE]
    ELSE IF includes(toLowerCase(message), "project not found") THEN
        [type |-> "configuration", message |-> message,
         suggestion |-> "check-project-and-org-id",
         actionItems |-> <<"verify-project-id", "confirm-org-id",
                           "ensure-token-access">>,
         retryable |-> FALSE]
    ELSE IF includes(toLowerCase(message), "build failed") THEN
        [type |-> "deployment", message |-> message,
         suggestion |-> "inspect-build-logs",
         actionItems |-> <<"check-build-logs", "run-local-build",
                           "ensure-env-vars">>,
         retryable |-> TRUE]
    ELSE
        [type |-> "unknown", message |-> message,
         suggestion |-> "review-error-details",
         actionItems |-> <<"check-secrets", "rerun-with-debug">>,
         retryable |-> TRUE]

\* ErrorHandler.handleVercel(error) for an error of that message
handleVercel(message) ==
    IF includes(toLowerCase(message), "project not found") THEN
        [type |-> "configuration", message |-> message,
         suggestion |-> "check-project-and-org-id",
         actionItems |-> <<"verify-project-id", "confirm-org-id",
                           "ensure-token-access">>,
         retryable |-> FALSE]
    ELSE IF includes(toLowerCase(message), "rate limit") THEN
        [type |-> "api_limit", message |-> message,
         suggestion |-> "wait-before-retrying",
         actionItems |-> <<"wait-10-15-minutes", "enable-only-if-changed">>,
         retryable |-> TRUE]
    ELSE IF includes(toLowerCase(message), "build failed") THEN
        [type |-> "deployment", message |-> message,
         suggestion |-> "inspect-build-logs",
         actionItems |-> <<"check-build-logs", "run-local-build",
                           "ensure-env-vars">>,
         retryable |-> TRUE]
    ELSE
        [type |-> "unknown", message |-> message,
         suggestion |-> "review-error-details",
         actionItems |-> <<"check-secrets", "rerun-with-debug">>,
         retryable |-> TRUE]

\* the longest message classified, in fragments
MaxFragments == 2

\* the fragments error messages are made of
MessageFragments ==
    { "Project not found", "PROJECT NOT FOUND", "rate limit", "RATE LIMIT",
      "Build failed", "build failed", "Timeout" }

\* the messages handed to handleVercel
ClassifiedMessages ==
    UNION { [1..n -> MessageFragments] : n \in 0..MaxFragments }

\* ErrorHandler.handleVercel is about to be called with an error of `message`
HandleVercelCalled(message) ==
    /\ call = [fn |-> "handleVercel", message |-> message]
    /\ ret = <<>>

\* the call returns the ActionableError
ApplyHandleVercel ==
    /\ call.fn = "handleVercel"
    /\ ret = <<>>
    /\ ret' = <<handleVercel(call.message)>>
    /\ UNCHANGED call
    /\ UNCHANGED outsideCall

----------------------------------------------------------------------------
(* executeWithRetry                                                         *)

\* An Error object: `raisedBy` is the attempt whose invocation raised it (its
\* identity); 0 marks an Error constructed by executeWithRetry itself.
ErrorOf(a, message) == [raisedBy |-> a, message |-> message]

\* messages the operation may reject with
ErrMessages ==
    { <<"Project not found">>, <<"Rate limit", "exceeded">>,
      <<"Build failed">>, <<"transient">> }

\* values the operation may resolve with
OpResults == { "https://docs-preview.vercel.app" }

NumberOptions(n) ==
    [isNumber |-> TRUE, num |-> n, maxRetries |-> None,
     backoffBaseMs |-> None, maxDelayMs |-> None]

ObjectOptions(m, b, d) ==
    [isNumber |-> FALSE, num |-> 0, maxRetries |-> m,
     backoffBaseMs |-> b, maxDelayMs |-> d]

\* the option values a caller passes
RetryOptionValues ==
    { NumberOptions(n) : n \in -1..MaxRetriesBound }
    \cup { ObjectOptions(m, b, d) :
             m \in {None} \cup { Some(n) : n \in 1..MaxRetriesBound },
             b \in {None, Some(0), Some(500)},
             d \in {None, Some(0), Some(3000)} }

\* const opts = typeof options === 'number' ? { maxRetries: options } : options
opts == IF options.isNumber
        THEN [maxRetries |-> Some(options.num), backoffBaseMs |-> None,
              maxDelayMs |-> None]
        ELSE [maxRetries |-> options.maxRetries,
              backoffBaseMs |-> options.backoffBaseMs,
              maxDelayMs |-> options.maxDelayMs]

maxRetries == Coalesce(opts.maxRetries, 3)

base == Coalesce(opts.backoffBaseMs, 1000)

maxDelay == Coalesce(opts.maxDelayMs, 30000)

delayMsOffByOne(a) == Min(maxDelay, 2 ^ (a - 1) * base)

\* const delayMs = Math.min(maxDelay, 2 ** attempt * base)
delayMs(a) == Min(maxDelay, 2 ^ a * base)

isLastOneEarly(a) == a + 1 = maxRetries

\* const isLast = attempt === maxRetries
isLast(a) == a = maxRetries

\* the state of a call that has just been entered with `o`
RetryEntered(o) ==
    /\ options = o
    /\ rpc = "loop"
    /\ attempt = 1
    /\ inFlight = 0
    /\ outcomes = <<>>
    /\ caught = None
    /\ last = None
    /\ errLog = <<>>
    /\ sleeps = <<>>
    /\ thrown = None
    /\ result = None

\* for (...; attempt <= maxRetries; ...) { try { return await operation()
InvokeOperation ==
    /\ rpc = "loop"
    /\ attempt <= maxRetries
    /\ inFlight' = inFlight + 1
    /\ rpc' = "awaiting"
    /\ UNCHANGED outsideRetry
    /\ UNCHANGED <<options, attempt, outcomes, caught, last, errLog, sleeps,
                   thrown, result>>

\* the awaited promise resolves: return its value
OperationResolves ==
    /\ rpc = "awaiting"
    /\ \E v \in OpResults :
          /\ outcomes' = Append(outcomes, [ok |-> TRUE, value |-> v,
                                           error |-> ErrorOf(0, <<>>)])
          /\ result' = Some(v)
    /\ inFlight' = inFlight - 1
    /\ rpc' = "returned"
    /\ UNCHANGED outsideRetry
    /\ UNCHANGED <<options, attempt, caught, last, errLog, sleeps, thrown>>

\* the awaited promise rejects: control enters the catch clause
OperationRejects ==
    /\ rpc = "awaiting"
    /\ \E m \in ErrMessages :
          /\ outcomes' = Append(outcomes, [ok |-> FALSE, value |-> "",
                                           error |-> ErrorOf(attempt, m)])
          /\ caught' = Some(ErrorOf(attempt, m))
    /\ inFlight' = inFlight - 1
    /\ rpc' = "caught"
    /\ UNCHANGED outsideRetry
    /\ UNCHANGED <<options, attempt, last, errLog, sleeps, thrown, result>>

errorToThrowWrapped(e, ae) == ErrorOf(0, ae.message)

\* throw e
errorToThrow(e, ae) == e

\* the three kinds of core.error line of one diagnostic
Diagnostic(a, e, ae) ==
    <<[line |-> "failure", attempt |-> a, text |-> ae.message, of |-> e]>>
    \o <<[line |-> "suggestion", attempt |-> a, text |-> <<ae.suggestion>>,
          of |-> e]>>
    \o [i \in 1..Len(ae.actionItems) |->
          [line |-> "item", attempt |-> a, text |-> <<ae.actionItems[i]>>,
           of |-> e]]

\* catch (e): last = mapError(e); non-retryable or last attempt: log, throw e
GiveUp ==
    /\ rpc = "caught"
    /\ LET e  == caught[1]
           ae == handleVercel(e.message)
       IN /\ (~ae.retryable) \/ isLast(attempt)
          /\ last' = Some(ae)
          /\ errLog' = errLog \o Diagnostic(attempt, e, ae)
          /\ thrown' = Some(errorToThrow(e, ae))
    /\ rpc' = "thrown"
    /\ UNCHANGED outsideRetry
    /\ UNCHANGED <<options, attempt, inFlight, outcomes, caught, sleeps,
                   result>>

\* a catch clause that starts the sleeper without awaiting it
ScheduleRetryNoAwait ==
    /\ rpc = "caught"
    /\ LET e  == caught[1]
           ae == handleVercel(e.message)
       IN /\ ~((~ae.retryable) \/ isLast(attempt))
          /\ last' = Some(ae)
          /\ sleeps' = Append(sleeps, [ms |-> delayMs(attempt),
                                       after |-> attempt, done |-> FALSE])
    /\ attempt' = attempt + 1
    /\ rpc' = "loop"
    /\ UNCHANGED outsideRetry
    /\ UNCHANGED <<options, inFlight, outcomes, caught, errLog,
                   thrown, result>>

\* catch (e): retryable and not last: compute the delay, await sleeper(delay)
ScheduleRetry ==
    /\ rpc = "caught"
    /\ LET e  == caught[1]
           ae == handleVercel(e.message)
       IN /\ ~((~ae.retryable) \/ isLast(attempt))
          /\ last' = Some(ae)
          /\ sleeps' = Append(sleeps, [ms |-> delayMs(attempt),
                                       after |-> attempt, done |-> FALSE])
    /\ rpc' = "sleeping"
    /\ UNCHANGED outsideRetry
    /\ UNCHANGED <<options, attempt, inFlight, outcomes, caught, errLog,
                   thrown, result>>

\* the sleeper's promise resolves; the loop's attempt++ runs
SleepCompletes ==
    /\ rpc = "sleeping"
    /\ sleeps' = [sleeps EXCEPT ![Len(sleeps)].done = TRUE]
    /\ attempt' = attempt + 1
    /\ rpc' = "loop"
    /\ UNCHANGED outsideRetry
    /\ UNCHANGED <<options, inFlight, outcomes, caught, last, errLog, thrown,
                   result>>

\* the loop ends without return or throw:
\* throw last ? new Error(last.message) : new Error('Unknown error')
ThrowAfterLoop ==
    /\ rpc = "loop"
    /\ ~(attempt <= maxRetries)
    /\ thrown' = Some(IF last # None THEN ErrorOf(0, last[1].message)
                                     ELSE ErrorOf(0, <<"Unknown error">>))
    /\ rpc' = "thrown"
    /\ UNCHANGED outsideRetry
    /\ UNCHANGED <<options, attempt, inFlight, outcomes, caught, last, errLog,
                   sleeps, result>>

----------------------------------------------------------------------------
(* Strings as sequences of fragments                                        *)

IsSpace(t) == t \in {" ", "\n"}

RECURSIVE trimStart(_)
trimStart(s) ==
    IF s # <<>> /\ IsSpace(Head(s)) THEN trimStart(Tail(s)) ELSE s

RECURSIVE trimEnd(_)
trimEnd(s) ==
    IF s # <<>> /\ IsSpace(s[Len(s)])
    THEN trimEnd(SubSeq(s, 1, Len(s) - 1)) ELSE s

\* String.prototype.trim
trim(s) == trimEnd(trimStart(s))

\* s.indexOf(t) for a one-fragment t, 1-based; 0 when absent
indexOf(s, t) ==
    IF \E i \in 1..Len(s) : s[i] = t
    THEN CHOOSE i \in 1..Len(s) : s[i] = t /\ \A j \in 1..(i - 1) : s[j] # t
    ELSE 0

\* s.replace(t, ''): only the first occurrence goes
replaceFirst(s, t) ==
    LET i == indexOf(s, t)
    IN IF i = 0 THEN s ELSE SubSeq(s, 1, i - 1) \o SubSeq(s, i + 1, Len(s))

\* s.split(',')
RECURSIVE split(_, _)
split(s, sep) ==
    LET i == indexOf(s, sep)
    IN IF i = 0 THEN <<s>>
       ELSE <<SubSeq(s, 1, i - 1)>> \o split(SubSeq(s, i + 1, Len(s)), sep)

\* xs.filter(Boolean) on an array of strings: the empty ones go
RECURSIVE filterBoolean(_)
filterBoolean(xs) ==
    IF xs = <<>> THEN <<>>
    ELSE IF Head(xs) # <<>> THEN <<Head(xs)>> \o filterBoolean(Tail(xs))
         ELSE filterBoolean(Tail(xs))

----------------------------------------------------------------------------
(* steps/changes.ts: parseCsv, shouldDeployByPolicy                         *)

\* a parser that reads a missing or empty input as the empty list
parseCsvEmptyMeansNone(input, fallback) ==
    IF input = <<>> THEN <<>>
    ELSE filterBoolean([i \in 1..Len(split(input, ",")) |->
                           trim(split(input, ",")[i])])

\* parseCsv(input, fallback)
parseCsv(input, fallback) ==
    IF input = <<>> THEN fallback
    ELSE filterBoolean([i \in 1..Len(split(input, ",")) |->
                           trim(split(input, ",")[i])])

DefaultBranches == << <<"main">>, <<"canary">> >>

isPR(c) == c.eventName \in {"pull_request", "pull_request_target"}

shouldDeployByPolicyListsSwapped(c, pushBranchesCsv, prBaseBranchesCsv) ==
    LET pushBranches   == parseCsv(prBaseBranchesCsv, DefaultBranches)
        prBaseBranches == parseCsv(pushBranchesCsv, DefaultBranches)
    IN IF ~isPR(c)
       THEN replaceFirst(c.ref, "refs/heads/") \in SeqToSet(pushBranches)
       ELSE c.baseRef \in SeqToSet(prBaseBranches)

\* a policy that consults both allowlists on every event
shouldDeployByPolicyEitherList(c, pushBranchesCsv, prBaseBranchesCsv) ==
    LET pushBranches   == parseCsv(pushBranchesCsv, DefaultBranches)
        prBaseBranches == parseCsv(prBaseBranchesCsv, DefaultBranches)
        both == SeqToSet(pushBranches) \cup SeqToSet(prBaseBranches)
    IN IF ~isPR(c)
       THEN replaceFirst(c.ref, "refs/heads/") \in both
       ELSE c.baseRef \in both

\* shouldDeployByPolicy(pushBranchesCsv, prBaseBranchesCsv) under context c
shouldDeployByPolicy(c, pushBranchesCsv, prBaseBranchesCsv) ==
    LET pushBranches   == parseCsv(pushBranchesCsv, DefaultBranches)
        prBaseBranches == parseCsv(prBaseBranchesCsv, DefaultBranches)
    IN IF ~isPR(c)
       THEN replaceFirst(c.ref, "refs/heads/") \in SeqToSet(pushBranches)
       ELSE c.baseRef \in SeqToSet(prBaseBranches)

----------------------------------------------------------------------------
(* steps/changes.ts: globToRegex, minimatch, detectRelevantChanges          *)

\* number of characters of a string given as fragments
RECURSIVE CharLen(_)
CharLen(s) == IF s = <<>> THEN 0 ELSE Len(Head(s)) + CharLen(Tail(s))

\* (glob.match(/\*/g) || []).length
StarCount(glob) == Cardinality({i \in 1..Len(glob) : glob[i] = "*"})

\* escapeRegex(glob).replace(/\\\*\\\*/g, '.*').replace(/\\\*/g, '[^/]*'):
\* pairs of stars, left to right, become '.*', a remaining star '[^/]*', any
\* other fragment stays a literal.
RECURSIVE globBody(_)
globBody(glob) ==
    IF glob = <<>> THEN <<>>
    ELSE IF Len(glob) >= 2 /\ glob[1] = "*" /\ glob[2] = "*"
         THEN <<".*">> \o globBody(SubSeq(glob, 3, Len(glob)))
    ELSE IF glob[1] = "*"
         THEN <<"[^/]*">> \o globBody(Tail(glob))
    ELSE <<glob[1]>> \o globBody(Tail(glob))

\* the characters '.' does not match in a RegExp built without the s flag
IsLineTerminator(t) == t \in {"\n", "\r"}

\* does the regex ^re$ (from position j) match path p from position i
RECURSIVE regexTest(_, _, _, _)
regexTest(p, i, re, j) ==
    IF j > Len(re) THEN i > Len(p)
    ELSE IF re[j] = ".*"
         THEN \E k \in i..(Len(p) + 1) :
                 /\ \A m \in i..(k - 1) : ~IsLineTerminator(p[m])
                 /\ regexTest(p, k, re, j + 1)
    ELSE IF re[j] = "[^/]*"
         THEN \E k \in i..(Len(p) + 1) :
                 /\ \A m \in i..(k - 1) : p[m] # "/"
                 /\ regexTest(p, k, re, j + 1)
    ELSE /\ i <= Len(p)
         /\ p[i] = re[j]
         /\ regexTest(p, i + 1, re, j + 1)

\* the message of the Error globToRegex throws ("" when it throws none)
globToRegexError(glob) ==
    IF CharLen(glob) > 1000 THEN "Glob pattern too long"
    ELSE IF StarCount(glob) > 20 THEN "Too many wildcards in glob pattern"
    ELSE ""

\* globToRegex throws for a glob that is too long or has too many wildcards
globToRegexThrows(glob) == CharLen(glob) > 1000 \/ StarCount(glob) > 20

\* minimatch(path, glob)
minimatch(path, glob) ==
    IF globToRegexThrows(glob) THEN FALSE
    ELSE regexTest(path, 1, globBody(glob), 1)

\* a string of n characters 'a'
RECURSIVE Repeated(_)
Repeated(n) ==
    IF n = 0 THEN ""
    ELSE IF n % 2 = 0 THEN LET half == Repeated(n \div 2) IN half \o half
    ELSE "a" \o Repeated(n - 1)

\* n wildcard characters in a row
Stars(n) == [i \in 1..n |-> "*"]

\* the paths minimatch is applied to
GlobPaths ==
    { <<"docs", "/", "a", "/", "b.md">>,
      <<"src", "/", "a.md">>,
      <<"docs", "/", "a", "\n", "b.md">>,
      <<"docs", "/", "b.md">>,
      <<"docs">>,
      <<"docs", "/">>,
      <<"b.md">>,
      <<"packages", "/", "x", "/", "package.json">>,
      <<Repeated(1000)>>,
      <<Repeated(1001)>> }

\* the patterns minimatch is applied to
GlobPatterns ==
    { <<"docs", "/", "*", "*">>,
      <<"docs", "/", "*">>,
      <<"docs", "/", "*", "/", "*">>,
      <<"*", "*">>,
      <<"*">>,
      <<"*", "*", "/", "b.md">>,
      <<"b.md">>,
      <<"packages", "/", "*", "/", "package.json">>,
      Stars(20),
      Stars(21),
      <<Repeated(1000)>>,
      <<Repeated(1001)>> }

\* minimatch is about to be called with (path, glob)
MinimatchCalled(path, glob) ==
    /\ call = [fn |-> "minimatch", path |-> path, glob |-> glob]
    /\ ret = None

\* the call settles: globToRegex(glob).test(path), or false from the catch
\* clause; nothing is thrown to the caller and nothing is logged
ApplyMinimatch ==
    /\ call.fn = "minimatch"
    /\ ret = None
    /\ ret' = Some([threw |-> FALSE, error |-> "",
                    caught |-> globToRegexError(call.glob),
                    value |-> minimatch(call.path, call.glob)])
    /\ UNCHANGED call
    /\ UNCHANGED outsideCall

\* paths.some((p) => globs.some((g) => minimatch(p, g)))
someMatch(paths, globs) ==
    \E i \in 1..Len(paths) : \E j \in 1..Len(globs) :
        minimatch(paths[i], globs[j])

\* ['docs/**', 'packages/*/src/**', 'packages/*/package.json']
DefaultGlobs ==
    << <<"docs", "/", "*", "*">>,
       <<"packages", "/", "*", "/", "src", "/", "*", "*">>,
       <<"packages", "/", "*", "/", "package.json">> >>

\* const globs = changeGlobs.length ? changeGlobs : [defaults]
effectiveGlobs(changeGlobs) ==
    IF Len(changeGlobs) # 0 THEN changeGlobs ELSE DefaultGlobs

\* What the changed-files request of detectRelevantChanges answered:
\* the call threw, or it listed `paths`.
ApiError == [threw |-> TRUE, paths |-> <<>>]

ApiFiles(paths) == [threw |-> FALSE, paths |-> paths]

\* a change gate that treats a failed request as "nothing relevant changed"
detectRelevantChangesFailClosed(c, globs, answer) ==
    IF isPR(c) /\ c.prNumber = 0 THEN TRUE
    ELSE IF answer.threw THEN FALSE
    ELSE someMatch(answer.paths, globs)

\* detectRelevantChanges(octokit, globs) given the answer of the API; for a
\* pull-request event without a PR number no request is made
detectRelevantChanges(c, globs, answer) ==
    IF isPR(c) /\ c.prNumber = 0 THEN TRUE
    ELSE IF answer.threw THEN TRUE
    ELSE someMatch(answer.paths, globs)

----------------------------------------------------------------------------
(* deploy/vercel-client: getBranch, resolveTarget, the target of a deploy   *)

\* String.prototype.startsWith for a prefix that is one fragment
startsWith(s, t) == s # <<>> /\ s[1] = t

\* a branch resolution that looks at GITHUB_REF before GITHUB_HEAD_REF
getBranchRefFirst(env) ==
    IF startsWith(env.GITHUB_REF, "refs/heads/")
    THEN replaceFirst(env.GITHUB_REF, "refs/heads/")
    ELSE IF env.GITHUB_HEAD_REF # <<>> THEN env.GITHUB_HEAD_REF
    ELSE IF startsWith(env.GITHUB_REF, "refs/tags/")
    THEN replaceFirst(env.GITHUB_REF, "refs/tags/")
    ELSE <<"unknown">>

\* getBranch(env); a missing variable is <<>>, as `env.X || ''` makes it
getBranch(env) ==
    IF env.GITHUB_HEAD_REF # <<>> THEN env.GITHUB_HEAD_REF
    ELSE IF startsWith(env.GITHUB_REF, "refs/heads/")
    THEN replaceFirst(env.GITHUB_REF, "refs/heads/")
    ELSE IF startsWith(env.GITHUB_REF, "refs/tags/")
    THEN replaceFirst(env.GITHUB_REF, "refs/tags/")
    ELSE <<"unknown">>

\* resolveTarget(env): env.GITHUB_REF === 'refs/heads/main'
resolveTarget(env) ==
    IF env.GITHUB_REF = <<"refs/heads/", "main">> THEN <<"production">>
    ELSE <<"staging">>

\* the target deployToVercel sends: options.target when it is a non-blank
\* string, else resolveTarget(process.env)
targetOfDeploy(optionsTarget, env) ==
    IF optionsTarget # <<>> /\ trim(optionsTarget) # <<>> THEN optionsTarget
    ELSE resolveTarget(env)

\* the values of GITHUB_REF
RefValues ==
    { <<>>,
      <<"refs/heads/", "main">>,
      <<"refs/heads/", "canary">>,
      <<"refs/heads/", "feature/x">>,
      <<"refs/heads/", "refs/heads/", "x">>,
      <<"refs/tags/", "v1.2.3">>,
      <<"refs/pull/7/merge">>,
      <<"refs/unknown/type">> }

\* the values of GITHUB_HEAD_REF
HeadRefValues == { <<>>, <<"main">>, <<"feature/x">> }

\* the values of options.target
TargetOptions == { <<>>, <<" ">>, <<"production">>, <<"staging">> }

\* deployToVercel is called with options.target under environment env
TargetCalled(optionsTarget, env) ==
    /\ call = [fn |-> "deployToVercel", target |-> optionsTarget, env |-> env]
    /\ ret = <<>>

\* lines 214-220: the branch and the target of the deployment are fixed
ApplyResolveTarget ==
    /\ call.fn = "deployToVercel"
    /\ ret = <<>>
    /\ ret' = << [branch |-> getBranch(call.env),
                  target |-> targetOfDeploy(call.target, call.env)] >>
    /\ UNCHANGED call
    /\ UNCHANGED outsideCall

----------------------------------------------------------------------------
(* deploy/vercel-client: deployToVercel, the request and the alias loop     *)

\* a deployment URL built also from a missing json.url
deploymentUrlAlwaysPrefixed(json) == <<"https://">> \o json.url

\* json.url ? `https://${json.url}` : ''
deploymentUrl(json) ==
    IF json.url # <<>> THEN <<"https://">> \o json.url ELSE <<>>

\* the fragments /\{\{\s*BRANCH\s*\}\}/g matches
BRANCH_TPL_RE == { "{{BRANCH}}", "{{ BRANCH }}" }

\* the fragments /\{\{\s*PR_NUMBER\s*\}\}/g matches
PR_TPL_RE == { "{{PR_NUMBER}}", "{{ PR_NUMBER }}" }

\* the fragments that contain '{{': the tokens above, a token of another
\* name and a token in lower case, which neither expression matches
OpenBraceFragments ==
    BRANCH_TPL_RE \cup PR_TPL_RE \cup { "{{SHA}}", "{{branch}}" }

\* d.includes('{{')
includesOpenBraces(d) == \E i \in 1..Len(d) : d[i] \in OpenBraceFragments

\* s.replace(re, value) for a global expression: every match is replaced
RECURSIVE replaceAll(_, _, _)
replaceAll(s, re, value) ==
    IF s = <<>> THEN <<>>
    ELSE (IF Head(s) \in re THEN value ELSE <<Head(s)>>)
         \o replaceAll(Tail(s), re, value)

\* slugify of one fragment: lower case, runs of '_' and white space to '-',
\* every other character that is not a word character or '-' removed
slugifyFragment(f) ==
    CASE f = "main" -> "main"
      [] f = "canary" -> "canary"
      [] f = "feature/x" -> "featurex"
      [] f = "Feat_X" -> "feat-x"
      [] f = "refs/heads/" -> "refsheads"
      [] f = "refs/tags/" -> "refstags"
      [] f = "refs/pull/7/merge" -> "refspull7merge"
      [] f = "v1.2.3" -> "v123"

\* slugify(input) for an input without '-' or white space at a fragment edge
slugify(input) == [i \in 1..Len(input) |-> slugifyFragment(input[i])]

\* templateAliasDomains(domains) under environment env
templateAliasDomains(domains, env) ==
    LET prNumber == env.GITHUB_PR_NUMBER
        isPr == prNumber # <<>>
        ref == IF env.GITHUB_HEAD_REF # <<>> THEN env.GITHUB_HEAD_REF
               ELSE env.GITHUB_REF
        b == slugify(replaceFirst(ref, "refs/heads/"))
        withBranch(d) == replaceAll(d, BRANCH_TPL_RE, b)
        withPr(d) == IF isPr THEN replaceAll(d, PR_TPL_RE, prNumber) ELSE d
        mapped == [i \in 1..Len(domains) |-> withPr(withBranch(domains[i]))]
        resolved(d) == ~includesOpenBraces(d)
    IN SelectSeq(mapped, resolved)

\* [...(options.aliasDomain ? [options.aliasDomain] : []),
\*  ...templateAliasDomains(options.aliasDomains)]
allAliases(o) ==
    (IF o.aliasDomain # <<>> THEN <<o.aliasDomain>> ELSE <<>>)
    \o templateAliasDomains(o.aliasDomains, o.env)

\* allAliases.length && options.aliasBranch &&
\* getBranch(process.env) === options.aliasBranch && json.id
aliasesWanted(o, json) ==
    /\ Len(allAliases(o)) # 0
    /\ o.aliasBranch # <<>>
    /\ getBranch(o.env) = o.aliasBranch
    /\ json.id # <<>>

\* a canonical URL that every assigned alias with a '.' replaces
becomesCanonicalEachTime(isSet, domain) == includes(domain, ".")

\* if (!canonicalSet && domain?.includes('.'))
becomesCanonical(isSet, domain) == ~isSet /\ includes(domain, ".")

\* alias domains, in fragments
AliasDomainValues ==
    { <<"x", ".", "example">>, <<"y", ".", "example">>, <<"localhost">> }

\* the lists of options.aliasDomains: plain domains and templates
AliasDomainLists ==
    { <<>>,
      << <<"y", ".", "example">> >>,
      << <<"localhost">>, <<"y", ".", "example">> >>,
      << <<"x", ".", "example">>, <<"y", ".", "example">> >>,
      << <<"{{BRANCH}}", ".", "example">>,
         <<"pr-", "{{PR_NUMBER}}", ".", "example">> >>,
      << <<"{{SHA}}", ".", "example">>,
         <<"{{ BRANCH }}", "-", "{{BRANCH}}", ".", "example">>,
         <<"{{branch}}", ".", "example">> >> }

\* the options and environment deployToVercel is called with
VercelOptions ==
    [ aliasDomain : { <<>>, <<"x", ".", "example">>, <<"localhost">>,
                      <<"{{BRANCH}}", ".", "example">> },
      aliasDomains : AliasDomainLists,
      aliasBranch : { <<>>, <<"main">>, <<"feature/x">> },
      githubOutput : BOOLEAN,
      env : { [GITHUB_REF |-> <<"refs/heads/", "main">>,
               GITHUB_HEAD_REF |-> <<>>, GITHUB_PR_NUMBER |-> <<>>],
              [GITHUB_REF |-> <<"refs/heads/", "main">>,
               GITHUB_HEAD_REF |-> <<"feature/x">>,
               GITHUB_PR_NUMBER |-> <<>>],
              [GITHUB_REF |-> <<"refs/pull/7/merge">>,
               GITHUB_HEAD_REF |-> <<"feature/x">>,
               GITHUB_PR_NUMBER |-> <<"7">>] } ]

\* parsed response bodies: url and id may be missing
JsonBodies ==
    [ url : { <<>>, <<"c15t-abc", ".", "vercel", ".", "app">> },
      id : { <<>>, <<"dpl_1">> } ]

\* res.statusCode values; <<>> is undefined
StatusCodes == { <<>>, <<199>>, <<200>>, <<201>>, <<299>>, <<300>>, <<404>>, <<500>> }

Is2xx(status) == status # <<>> /\ status[1] >= 200 /\ status[1] < 300

\* what deployToVercel hands back: a result, or an Error
Returned(u, id, out) ==
    [threw |-> FALSE, error |-> "", status |-> <<>>, body |-> <<>>,
     url |-> u, id |-> id, githubOutput |-> out]

Threw(message, status, body) ==
    [threw |-> TRUE, error |-> message, status |-> status, body |-> body,
     url |-> <<>>, id |-> <<>>, githubOutput |-> <<>>]

\* lines 381-385: the two lines appended to GITHUB_OUTPUT, then the result
ReturnResult(u, id) ==
    /\ vret' = << Returned(u, id, IF vopts.githubOutput
                                   THEN << <<"url=">> \o u,
                                           <<"deployment_url=">> \o u >>
                                   ELSE <<>>) >>
    /\ vpc' = "returned"

\* deployToVercel has been called and its deployment request is in flight
VercelCalled(o) ==
    /\ vopts = o
    /\ vpc = "requesting"
    /\ response = <<>>
    /\ resultUrl = <<>>
    /\ canonicalSet = FALSE
    /\ aliasIdx = 0
    /\ aliasLog = <<>>
    /\ vret = <<>>

\* req.on('error'): the promise rejects with the socket error
DeployRequestErrors ==
    /\ vpc = "requesting"
    /\ response' = << [kind |-> "error", status |-> <<>>, parses |-> FALSE,
                       json |-> [url |-> <<>>, id |-> <<>>]] >>
    /\ vret' = << Threw("socket error", <<>>, <<>>) >>
    /\ vpc' = "threw"
    /\ UNCHANGED <<vopts, resultUrl, canonicalSet, aliasIdx, aliasLog>>
    /\ UNCHANGED outsideVercel

\* the response is not 2xx: reject(new Error(`Vercel API error: ...`))
DeployResponseRejected ==
    /\ vpc = "requesting"
    /\ \E st \in StatusCodes, parses \in BOOLEAN, json \in JsonBodies :
          /\ ~Is2xx(st)
          /\ response' = << [kind |-> "http", status |-> st,
                             parses |-> parses, json |-> json] >>
          /\ vret' = << Threw("Vercel API error", st,
                              << [parses |-> parses, json |-> json] >>) >>
    /\ vpc' = "threw"
    /\ UNCHANGED <<vopts, resultUrl, canonicalSet, aliasIdx, aliasLog>>
    /\ UNCHANGED outsideVercel

\* a 2xx response whose text JSON.parse rejects
DeployResponseUnparseable ==
    /\ vpc = "requesting"
    /\ \E st \in StatusCodes :
          /\ Is2xx(st)
          /\ response' = << [kind |-> "http", status |-> st, parses |-> FALSE,
                             json |-> [url |-> <<>>, id |-> <<>>]] >>
    /\ vret' = << Threw("SyntaxError", <<>>, <<>>) >>
    /\ vpc' = "threw"
    /\ UNCHANGED <<vopts, resultUrl, canonicalSet, aliasIdx, aliasLog>>
    /\ UNCHANGED outsideVercel

\* a 2xx response without url: throw new Error('Vercel did not return ...')
DeployResponseWithoutUrl ==
    /\ vpc = "requesting"
    /\ \E st \in StatusCodes, json \in JsonBodies :
          /\ Is2xx(st)
          /\ deploymentUrl(json) = <<>>
          /\ response' = << [kind |-> "http", status |-> st, parses |-> TRUE,
                             json |-> json] >>
    /\ vret' = << Threw("Vercel did not return a deployment URL.",
                        <<>>, <<>>) >>
    /\ vpc' = "threw"
    /\ UNCHANGED <<vopts, resultUrl, canonicalSet, aliasIdx, aliasLog>>
    /\ UNCHANGED outsideVercel

\* a 2xx response with a url: the first alias request goes out, or, without
\* aliases to assign, the result is returned
DeployResponseAccepted ==
    /\ vpc = "requesting"
    /\ \E st \in StatusCodes, json \in JsonBodies :
          /\ Is2xx(st)
          /\ deploymentUrl(json) # <<>>
          /\ response' = << [kind |-> "http", status |-> st, parses |-> TRUE,
                             json |-> json] >>
          /\ resultUrl' = deploymentUrl(json)
          /\ IF aliasesWanted(vopts, json)
             THEN /\ vpc' = "aliasing"
                  /\ aliasIdx' = 1
                  /\ vret' = vret
             ELSE /\ ReturnResult(deploymentUrl(json), json.id)
                  /\ aliasIdx' = aliasIdx
    /\ UNCHANGED <<vopts, canonicalSet, aliasLog>>
    /\ UNCHANGED outsideVercel

\* after the request for allAliases[aliasIdx]: the next one, or the result
NextAliasOrReturn(u) ==
    IF aliasIdx < Len(allAliases(vopts))
    THEN /\ aliasIdx' = aliasIdx + 1
         /\ UNCHANGED <<vpc, vret>>
    ELSE /\ aliasIdx' = aliasIdx
         /\ ReturnResult(u, response[1].json.id)

\* the alias request for the current domain answers 2xx
AliasSucceeds ==
    /\ vpc = "aliasing"
    /\ LET domain == allAliases(vopts)[aliasIdx]
           u == IF becomesCanonical(canonicalSet, domain)
                THEN <<"https://">> \o domain ELSE resultUrl
       IN /\ aliasLog' = Append(aliasLog, [domain |-> domain, ok |-> TRUE])
          /\ resultUrl' = u
          /\ canonicalSet' = (canonicalSet
                                \/ becomesCanonical(canonicalSet, domain))
          /\ NextAliasOrReturn(u)
    /\ UNCHANGED <<vopts, response>>
    /\ UNCHANGED outsideVercel

\* the alias request is rejected or errors: catch { } and continue
AliasFails ==
    /\ vpc = "aliasing"
    /\ aliasLog' = Append(aliasLog, [domain |-> allAliases(vopts)[aliasIdx],
                                     ok |-> FALSE])
    /\ NextAliasOrReturn(resultUrl)
    /\ UNCHANGED <<vopts, response, resultUrl, canonicalSet>>
    /\ UNCHANGED outsideVercel

----------------------------------------------------------------------------
(* steps/deployment: performVercelDeployment and the deployment recorder    *)

\* resolveBranch() under context c
resolveBranch(c) ==
    IF c.headRef # <<>> THEN c.headRef
    ELSE IF startsWith(c.ref, "refs/heads/")
         THEN replaceFirst(c.ref, "refs/heads/")
    ELSE c.ref

\* an environment name that follows the target alone
computeEnvironmentNameByTarget(target, b) ==
    IF target = <<"production">> THEN <<"production">>
    ELSE <<"preview/">> \o b

\* computeEnvironmentName(target, branch); target <<>> is undefined
computeEnvironmentName(target, b) ==
    IF target = <<"production">> THEN <<"production">>
    ELSE IF b = <<"main">> THEN <<"production">>
    ELSE <<"preview/">> \o b

\* let targetHint = vercelTarget && vercelTarget.trim() !== '' ? vercelTarget
\*   : undefined; if (!targetHint) targetHint = branch === 'main' ? ... : ...
resolveTargetHint(vercelTarget, b) ==
    IF vercelTarget # <<>> /\ trim(vercelTarget) # <<>> THEN vercelTarget
    ELSE IF b = <<"main">> THEN <<"production">>
    ELSE <<"staging">>

statusOnFailureSaysSuccess == "success"

\* the state passed to setGitHubDeploymentStatus in the catch clause
statusOnFailure == "failure"

\* the contexts a run is started in
Contexts ==
    { [eventName |-> "push", ref |-> <<"refs/heads/", "main">>,
       headRef |-> <<>>, baseRef |-> <<>>, prNumber |-> 0],
      [eventName |-> "push", ref |-> <<"refs/heads/", "feature/x">>,
       headRef |-> <<>>, baseRef |-> <<>>, prNumber |-> 0],
      [eventName |-> "pull_request", ref |-> <<"refs/pull/7/merge">>,
       headRef |-> <<>>, baseRef |-> <<"main">>, prNumber |-> 7] }

\* the input values a workflow sets
Configs ==
    [ credsPresent : BOOLEAN,
      setupDocs : BOOLEAN,
      deployOnPushBranches : { <<>>, <<"feature/x">> },
      deployOnPrBaseBranches : { <<>>, <<"canary">> },
      onlyIfChanged : BOOLEAN,
      changeGlobs : { <<>>, << <<"src", "/", "*">> >> },
      checkTemplateChanges : BOOLEAN,
      vercelTarget : { <<>>, <<"production">>, <<"staging">> } ]

\* the changed-file lists the API may answer with
ChangedPathLists ==
    { <<>>,
      << <<"docs", "/", "a", "/", "b.md">> >>,
      << <<"src", "/", "a.md">> >>,
      << <<"README.md">>, <<"packages", "/", "x", "/", "package.json">> >> }

ApiAnswers == {ApiError} \cup { ApiFiles(ps) : ps \in ChangedPathLists }

\* executeWithRetry has not been entered
RetryIdle ==
    /\ options = NumberOptions(3)
    /\ rpc = "idle"
    /\ attempt = 0
    /\ inFlight = 0
    /\ outcomes = <<>>
    /\ caught = None
    /\ last = None
    /\ errLog = <<>>
    /\ sleeps = <<>>
    /\ thrown = None
    /\ result = None

\* performVercelDeployment has just been called under context c, inputs f
DeployEntered(c, f) ==
    /\ ctx = c
    /\ cfg = f
    /\ dpc = "start"
    /\ gate = "pending"
    /\ allowedByPolicy = None
    /\ changeSet = None
    /\ relevant = None
    /\ branch = <<>>
    /\ targetHint = <<>>
    /\ environmentName = <<>>
    /\ deploymentId = None
    /\ ghDeployments = <<>>
    /\ statusCalls = <<>>
    /\ warnings = <<>>
    /\ deploymentUrlOutput = None
    /\ failedMsg = <<>>
    /\ dret = None

\* return <v> from performVercelDeployment
Return(v) ==
    /\ dret' = v
    /\ dpc' = "done"

\* if (!vercelToken || !vercelProjectId || !vercelOrgId) return undefined
SkipNoCredentials ==
    /\ dpc = "start"
    /\ ~cfg.credsPresent
    /\ gate' = "no-credentials"
    /\ Return(None)
    /\ UNCHANGED <<ctx, cfg, allowedByPolicy, changeSet, relevant, branch,
                   targetHint, environmentName, deploymentId, ghDeployments,
                   statusCalls, warnings, deploymentUrlOutput, failedMsg>>
    /\ UNCHANGED outsideDeploy

\* setupDocsWithScript throws: core.setFailed, return undefined
SetupDocsFails ==
    /\ dpc = "start"
    /\ cfg.credsPresent
    /\ cfg.setupDocs
    /\ gate' = "docs-setup-failed"
    /\ failedMsg' = Append(failedMsg, "docs setup failed")
    /\ Return(None)
    /\ UNCHANGED <<ctx, cfg, allowedByPolicy, changeSet, relevant, branch,
                   targetHint, environmentName, deploymentId, ghDeployments,
                   statusCalls, warnings, deploymentUrlOutput>>
    /\ UNCHANGED outsideDeploy

\* a step that creates the deployment record before it looks at the policy
PolicyDeniesAfterRecord ==
    /\ dpc = "start"
    /\ cfg.credsPresent
    /\ ~shouldDeployByPolicy(ctx, cfg.deployOnPushBranches,
                             cfg.deployOnPrBaseBranches)
    /\ ghDeployments' =
          Append(ghDeployments,
                 [id |-> Len(ghDeployments) + 1,
                  environment |-> <<"production">>,
                  transient_environment |-> FALSE,
                  production_environment |-> TRUE])
    /\ allowedByPolicy' = Some(FALSE)
    /\ gate' = "policy"
    /\ Return(None)
    /\ UNCHANGED <<ctx, cfg, changeSet, relevant, branch,
                   targetHint, environmentName, deploymentId,
                   statusCalls, warnings, deploymentUrlOutput, failedMsg>>
    /\ UNCHANGED outsideDeploy

\* if (!allowedByPolicy) return undefined
PolicyDenies ==
    /\ dpc = "start"
    /\ cfg.credsPresent
    /\ ~shouldDeployByPolicy(ctx, cfg.deployOnPushBranches,
                             cfg.deployOnPrBaseBranches)
    /\ allowedByPolicy' = Some(FALSE)
    /\ gate' = "policy"
    /\ Return(None)
    /\ UNCHANGED <<ctx, cfg, changeSet, relevant, branch,
                   targetHint, environmentName, deploymentId, ghDeployments,
                   statusCalls, warnings, deploymentUrlOutput, failedMsg>>
    /\ UNCHANGED outsideDeploy

\* if (onlyIfChanged) { ... await detectRelevantChanges(octokit, globs)
BeginChangeDetection ==
    /\ dpc = "start"
    /\ cfg.credsPresent
    /\ shouldDeployByPolicy(ctx, cfg.deployOnPushBranches,
                            cfg.deployOnPrBaseBranches)
    /\ cfg.onlyIfChanged
    /\ allowedByPolicy' = Some(TRUE)
    /\ dpc' = "detecting"
    /\ UNCHANGED <<ctx, cfg, gate, changeSet, relevant, branch, targetHint,
                   environmentName, deploymentId, ghDeployments, statusCalls,
                   warnings, deploymentUrlOutput, failedMsg, dret>>
    /\ UNCHANGED outsideDeploy

\* lines 188-225: branch, targetHint, environmentName, then the call of
\* createGitHubDeployment
CallCreateGitHubDeployment ==
    /\ branch' = resolveBranch(ctx)
    /\ targetHint' = resolveTargetHint(cfg.vercelTarget, resolveBranch(ctx))
    /\ environmentName' =
          computeEnvironmentName(
              resolveTargetHint(cfg.vercelTarget, resolveBranch(ctx)),
              resolveBranch(ctx))
    /\ gate' = "go"
    /\ dpc' = "creating"

\* onlyIfChanged is off: straight to the deployment
BeginDeployment ==
    /\ dpc = "start"
    /\ cfg.credsPresent
    /\ shouldDeployByPolicy(ctx, cfg.deployOnPushBranches,
                            cfg.deployOnPrBaseBranches)
    /\ ~cfg.onlyIfChanged
    /\ allowedByPolicy' = Some(TRUE)
    /\ CallCreateGitHubDeployment
    /\ UNCHANGED <<ctx, cfg, changeSet, relevant, deploymentId,
                   ghDeployments, statusCalls, warnings, deploymentUrlOutput,
                   failedMsg, dret>>
    /\ UNCHANGED outsideDeploy

skipWhenIrrelevantOrNoTemplateCheck(rel, checkTemplateChanges) ==
    ~rel \/ ~checkTemplateChanges

\* if (!relevant && !checkTemplateChanges) return undefined
skipWhenIrrelevant(rel, checkTemplateChanges) ==
    ~rel /\ ~checkTemplateChanges

\* detectRelevantChanges settles; the gate skips the deployment
ChangesIrrelevantSkip ==
    /\ dpc = "detecting"
    /\ \E answer \in ApiAnswers :
          LET rel == detectRelevantChanges(ctx, effectiveGlobs(cfg.changeGlobs),
                                           answer)
          IN /\ skipWhenIrrelevant(rel, cfg.checkTemplateChanges)
             /\ changeSet' = Some(answer)
             /\ relevant' = Some(rel)
             /\ warnings' = IF answer.threw
                            THEN Append(warnings, "change detection failed")
                            ELSE warnings
    /\ gate' = "no-relevant-changes"
    /\ Return(None)
    /\ UNCHANGED <<ctx, cfg, allowedByPolicy, branch, targetHint,
                   environmentName, deploymentId, ghDeployments, statusCalls,
                   deploymentUrlOutput, failedMsg>>
    /\ UNCHANGED outsideDeploy

\* detectRelevantChanges settles; the deployment goes on
ChangesProceed ==
    /\ dpc = "detecting"
    /\ \E answer \in ApiAnswers :
          LET rel == detectRelevantChanges(ctx, effectiveGlobs(cfg.changeGlobs),
                                           answer)
          IN /\ ~skipWhenIrrelevant(rel, cfg.checkTemplateChanges)
             /\ changeSet' = Some(answer)
             /\ relevant' = Some(rel)
             /\ warnings' = IF answer.threw
                            THEN Append(warnings, "change detection failed")
                            ELSE warnings
    /\ CallCreateGitHubDeployment
    /\ UNCHANGED <<ctx, cfg, allowedByPolicy, deploymentId, ghDeployments,
                   statusCalls, deploymentUrlOutput, failedMsg, dret>>
    /\ UNCHANGED outsideDeploy

\* createGitHubDeployment: the API call succeeds, the id is a number, and
\* setGitHubDeploymentStatus(in_progress) is called
CreateGitHubDeploymentOk ==
    /\ dpc = "creating"
    /\ ghDeployments' =
          Append(ghDeployments,
                 [id |-> Len(ghDeployments) + 1,
                  environment |-> environmentName,
                  transient_environment |-> environmentName # <<"production">>,
                  production_environment |-> environmentName = <<"production">>])
    /\ deploymentId' = Some(Len(ghDeployments) + 1)
    /\ dpc' = "settingInProgress"
    /\ UNCHANGED <<ctx, cfg, gate, allowedByPolicy, changeSet, relevant,
                   branch, targetHint, environmentName, statusCalls, warnings,
                   deploymentUrlOutput, failedMsg, dret>>
    /\ UNCHANGED outsideDeploy

\* a failing createDeployment that is not caught: the step ends there
CreateGitHubDeploymentRethrows ==
    /\ dpc = "creating"
    /\ warnings' = Append(warnings, "Could not create GitHub Deployment")
    /\ deploymentId' = None
    /\ Return(None)
    /\ UNCHANGED <<ctx, cfg, gate, allowedByPolicy, changeSet, relevant,
                   branch, targetHint, environmentName, ghDeployments,
                   statusCalls, deploymentUrlOutput, failedMsg>>
    /\ UNCHANGED outsideDeploy

\* createGitHubDeployment: the API call throws; warning, undefined, and the
\* step goes on to ensureGitMetaEnv
CreateGitHubDeploymentFails ==
    /\ dpc = "creating"
    /\ warnings' = Append(warnings, "Could not create GitHub Deployment")
    /\ deploymentId' = None
    /\ dpc' = "meta"
    /\ UNCHANGED <<ctx, cfg, gate, allowedByPolicy, changeSet, relevant,
                   branch, targetHint, environmentName, ghDeployments,
                   statusCalls, deploymentUrlOutput, failedMsg, dret>>
    /\ UNCHANGED outsideDeploy

\* one createDeploymentStatus call as the recorder makes it: `ok` is whether
\* the API accepted it, `deployCalls` the remote deploy calls made before it
StatusCall(state, url, ok) ==
    [deployment_id |-> deploymentId[1], state |-> state,
     environment_url |-> url, ok |-> ok,
     deployCalls |-> Len(outcomes) + inFlight]

\* setGitHubDeploymentStatus: the call is made; a failure is a warning
SetStatus(state, url) ==
    \E ok \in BOOLEAN :
        /\ statusCalls' = Append(statusCalls, StatusCall(state, url, ok))
        /\ warnings' = IF ok THEN warnings
                       ELSE Append(warnings, "Could not set deployment status")

\* setGitHubDeploymentStatus(deploymentId, 'in_progress') settles
SetInProgress ==
    /\ dpc = "settingInProgress"
    /\ SetStatus("in_progress", None)
    /\ dpc' = "meta"
    /\ UNCHANGED <<ctx, cfg, gate, allowedByPolicy, changeSet, relevant,
                   branch, targetHint, environmentName, deploymentId,
                   ghDeployments, deploymentUrlOutput, failedMsg, dret>>
    /\ UNCHANGED outsideDeploy

\* ensureGitMetaEnv settles (its failure is only a debug line), then
\* executeWithRetry(() => deployToVercel(...), ErrorHandler.handleVercel, 3)
\* is entered
EnterDeployRetry ==
    /\ dpc = "meta"
    /\ options' = NumberOptions(3)
    /\ rpc' = "loop"
    /\ attempt' = 1
    /\ dpc' = "deploying"
    /\ UNCHANGED <<inFlight, outcomes, caught, last, errLog, sleeps, thrown,
                   result>>
    /\ UNCHANGED <<ctx, cfg, gate, allowedByPolicy, changeSet, relevant,
                   branch, targetHint, environmentName, deploymentId,
                   ghDeployments, statusCalls, warnings, deploymentUrlOutput,
                   failedMsg, dret>>
    /\ UNCHANGED <<commentVars, callVars, vercelVars, mainVars>>

\* the retry executor returned: setOutput, no record to update, return url
DeploySucceededNoRecord ==
    /\ dpc = "deploying"
    /\ rpc = "returned"
    /\ deploymentId = None
    /\ deploymentUrlOutput' = result
    /\ Return(result)
    /\ UNCHANGED <<ctx, cfg, gate, allowedByPolicy, changeSet, relevant,
                   branch, targetHint, environmentName, deploymentId,
                   ghDeployments, statusCalls, warnings, failedMsg>>
    /\ UNCHANGED outsideDeploy

\* the retry executor returned: setOutput, then
\* setGitHubDeploymentStatus(deploymentId, 'success', ..., url) is called
DeploySucceeded ==
    /\ dpc = "deploying"
    /\ rpc = "returned"
    /\ deploymentId # None
    /\ deploymentUrlOutput' = result
    /\ dpc' = "settingSuccess"
    /\ UNCHANGED <<ctx, cfg, gate, allowedByPolicy, changeSet, relevant,
                   branch, targetHint, environmentName, deploymentId,
                   ghDeployments, statusCalls, warnings, failedMsg, dret>>
    /\ UNCHANGED outsideDeploy

\* the success status settles; return url
SetSuccess ==
    /\ dpc = "settingSuccess"
    /\ SetStatus("success", IF result[1] # "" THEN result ELSE None)
    /\ Return(result)
    /\ UNCHANGED <<ctx, cfg, gate, allowedByPolicy, changeSet, relevant,
                   branch, targetHint, environmentName, deploymentId,
                   ghDeployments, deploymentUrlOutput, failedMsg>>
    /\ UNCHANGED outsideDeploy

\* the retry executor threw: setFailed, no record to update, return undefined
DeployFailedNoRecord ==
    /\ dpc = "deploying"
    /\ rpc = "thrown"
    /\ deploymentId = None
    /\ failedMsg' = Append(failedMsg, "vercel deployment failed")
    /\ Return(None)
    /\ UNCHANGED <<ctx, cfg, gate, allowedByPolicy, changeSet, relevant,
                   branch, targetHint, environmentName, deploymentId,
                   ghDeployments, statusCalls, warnings, deploymentUrlOutput>>
    /\ UNCHANGED outsideDeploy

\* the retry executor threw: setFailed, then
\* setGitHubDeploymentStatus(deploymentId, 'failure') is called
DeployFailed ==
    /\ dpc = "deploying"
    /\ rpc = "thrown"
    /\ deploymentId # None
    /\ failedMsg' = Append(failedMsg, "vercel deployment failed")
    /\ dpc' = "settingFailure"
    /\ UNCHANGED <<ctx, cfg, gate, allowedByPolicy, changeSet, relevant,
                   branch, targetHint, environmentName, deploymentId,
                   ghDeployments, statusCalls, warnings, deploymentUrlOutput,
                   dret>>
    /\ UNCHANGED outsideDeploy

\* the failure status settles; return undefined
SetFailure ==
    /\ dpc = "settingFailure"
    /\ SetStatus(statusOnFailure, None)
    /\ Return(None)
    /\ UNCHANGED <<ctx, cfg, gate, allowedByPolicy, changeSet, relevant,
                   branch, targetHint, environmentName, deploymentId,
                   ghDeployments, deploymentUrlOutput, failedMsg>>
    /\ UNCHANGED outsideDeploy

----------------------------------------------------------------------------
(* github/pr-comment: markers, bodies, discovery                            *)

\* page size of the discovery query (comments(first: 100 ...)), scaled down
PageSize == 2

\* runs of ensureComment on the pull request
MaxRuns == 2

Runs == 1..MaxRuns

\* const key = (header || 'c15t-docs-preview').trim() || 'c15t-docs-preview'
\* for a header of at most one fragment besides blanks
headerKey(header) ==
    IF header = <<>> THEN "c15t-docs-preview"
    ELSE IF trim(header) = <<>> THEN "c15t-docs-preview"
    ELSE trim(header)[1]

autoStart(header) == "<!-- c15t:" \o headerKey(header) \o ":START -->"

autoEnd(header) == "<!-- c15t:" \o headerKey(header) \o ":END -->"

\* [autoStart(header), body, autoEnd(header)].join('\n')
bodyWithHeader(body, header) ==
    <<autoStart(header), "\n">> \o body \o <<"\n", autoEnd(header)>>

\* body.substring(i + start.length, j) for the marker fragments at i and j:
\* String.prototype.substring swaps its arguments when the first is larger
innerSpan(body, i, j) ==
    IF i < j THEN SubSeq(body, i + 1, j - 1) ELSE SubSeq(body, j, i)

bodyWithoutHeader(body, header) ==
    LET i == indexOf(body, autoStart(header))
        j == indexOf(body, autoEnd(header))
    IN IF i # 0 /\ j # 0 THEN trim(innerSpan(body, i, j)) ELSE <<>>

\* commentsEqual(body, previous, header)
commentsEqual(body, previous, header) ==
    LET normalize(t) ==
            LET i == indexOf(t, autoStart(header))
                j == indexOf(t, autoEnd(header))
            IN IF i # 0 /\ j # 0 THEN trim(innerSpan(t, i, j)) ELSE t
    IN normalize(body) = normalize(previous)

\* previous.body.replace(RE_DETAILS_OPEN, '$1$2')
closeDetails(body) ==
    [i \in 1..Len(body) |->
        IF body[i] = "<details open>" THEN "<details>" ELSE body[i]]

\* getBodyOf(previous, append, hideDetails); None is undefined
getBodyOf(previousBody, append, hideDetails) ==
    IF ~append THEN None
    ELSE IF ~hideDetails \/ previousBody = <<>> THEN Some(previousBody)
    ELSE Some(closeDetails(previousBody))

\* the body updateComment and createComment send
composedBody(body, header, previousBody) ==
    IF previousBody # None /\ previousBody[1] # <<>>
    THEN bodyWithHeader(bodyWithoutHeader(previousBody[1], header)
                        \o <<"\n">> \o body, header)
    ELSE bodyWithHeader(body, header)

\* a writer without the blank-body check
blankGuardNever(body, previousBody) == FALSE

\* if (!body && !previousBody) { core.warning(...); return }
blankGuard(body, previousBody) ==
    body = <<>> /\ (previousBody = None \/ previousBody[1] = <<>>)

\* (login ?? '').replace(/\[bot\]$/i, '').trim().toLowerCase()
normalizeLogin(login) ==
    LET noBot == IF login # <<>> /\ LowerToken(login[Len(login)]) = "[bot]"
                 THEN SubSeq(login, 1, Len(login) - 1) ELSE login
    IN toLowerCase(trim(noBot))

\* normalizeLogin(authorLogin ?? viewer.login), called with
\* authorLogin || undefined
expectedLogin(f) ==
    normalizeLogin(IF f.authorLogin # <<>> THEN f.authorLogin ELSE f.viewer)

\* the predicate of nodes.find(...) in findPreviousComment
matches(node, f) ==
    /\ normalizeLogin(node.author) = expectedLogin(f)
    /\ ~node.isMinimized
    /\ includes(node.body, autoStart(f.header))

\* the positions of the nodes of the page after cursor `after`
pageNodes(after) == (after + 1)..Min(after + PageSize, Len(prComments))

\* a discovery that reads the first page only
hasNextPageNever(after) == FALSE

\* pageInfo.hasNextPage of that page
hasNextPage(after) == after + PageSize < Len(prComments)

\* the login GitHub reports as author of a comment the token `viewer` posts
authorOfPosted(viewer) ==
    IF viewer # <<>> /\ viewer[Len(viewer)] = "[bot]"
    THEN SubSeq(viewer, 1, Len(viewer) - 1) ELSE viewer

----------------------------------------------------------------------------
(* steps/comments: ensureComment                                            *)

AUTO_COMMENT_START ==
    "<!-- This is an auto-generated comment: c15t docs preview -->"

AUTO_COMMENT_END ==
    "<!-- end of auto-generated comment: c15t docs preview -->"

\* the rendered bodies a run passes as effectiveBody
EffectiveBodies ==
    { <<>>, <<"A">>, <<"A", "\n">>,
      <<AUTO_COMMENT_START, "\n", "B", "\n", AUTO_COMMENT_END>> }

\* the options argument: appendOverride (hideDetailsOverride is not passed)
AppendOverrides == { None, Some(TRUE) }

IdleRun ==
    [pc |-> "idle", body |-> <<>>, appendOverride |-> None, after |-> 0,
     previous |-> None, pending |-> <<>>, decision |-> "none",
     queries |-> 0, writes |-> 0,
     previous_comment_id |-> None, created_comment_id |-> None]

\* no run has started
RunsIdle == runs = [r \in Runs |-> IdleRun]

\* lines 364-379: the empty-body checks, then the first discovery query
ensureCommentEntered(run, body, override) ==
    IF body = <<>> /\ ccfg.ignoreEmpty
    THEN [run EXCEPT !.pc = "done", !.body = body,
                     !.appendOverride = override, !.decision = "skip-empty"]
    ELSE IF body = <<>>
    THEN [run EXCEPT !.pc = "threw", !.body = body,
                     !.appendOverride = override]
    ELSE [run EXCEPT !.pc = "finding", !.body = body,
                     !.appendOverride = override, !.after = 0]

\* ensureComment is called as run r
EnterEnsureComment(r, body, override) ==
    /\ runs[r].pc = "idle"
    /\ runs' = [runs EXCEPT ![r] = ensureCommentEntered(@, body, override)]
    /\ UNCHANGED <<ccfg, prComments>>
    /\ UNCHANGED outsideComments

\* a run starts while no other run is between its start and its end
StartRunAlone ==
    \E r \in Runs, body \in EffectiveBodies, override \in AppendOverrides :
        /\ \A q \in Runs : runs[q].pc \in {"idle", "done", "threw"}
        /\ \A q \in 1..(r - 1) : runs[q].pc # "idle"
        /\ EnterEnsureComment(r, body, override)

\* a run starts whatever the other runs are doing
StartRun ==
    \E r \in Runs, body \in EffectiveBodies, override \in AppendOverrides :
        /\ \A q \in 1..(r - 1) : runs[q].pc # "idle"
        /\ EnterEnsureComment(r, body, override)

\* a discovery that takes the last node of the page the predicate accepts
targetOnLast(after) ==
    IF \E i \in pageNodes(after) : matches(prComments[i], ccfg)
    THEN CHOOSE i \in pageNodes(after) :
            /\ matches(prComments[i], ccfg)
            /\ \A k \in pageNodes(after) :
                  k > i => ~matches(prComments[k], ccfg)
    ELSE 0

\* the first node of the page that the predicate accepts (0: none)
targetOn(after) ==
    IF \E i \in pageNodes(after) : matches(prComments[i], ccfg)
    THEN CHOOSE i \in pageNodes(after) :
            /\ matches(prComments[i], ccfg)
            /\ \A k \in pageNodes(after) :
                  k < i => ~matches(prComments[k], ccfg)
    ELSE 0

\* a discovery query answers a page without a match and with a next page:
\* after = endCursor, the loop queries again
FindNextPage(r) ==
    /\ runs[r].pc = "finding"
    /\ targetOn(runs[r].after) = 0
    /\ hasNextPage(runs[r].after)
    /\ runs' = [runs EXCEPT ![r].after = @ + PageSize,
                            ![r].queries = @ + 1]
    /\ UNCHANGED <<ccfg, prComments>>
    /\ UNCHANGED outsideComments

\* the last page has no match: findPreviousComment returns undefined,
\* createInitialCommentWhenMissing calls createComment
FindNothingThenCreate(r) ==
    /\ runs[r].pc = "finding"
    /\ targetOn(runs[r].after) = 0
    /\ ~hasNextPage(runs[r].after)
    /\ runs' = [runs EXCEPT ![r] =
          IF blankGuard(@.body, None)
          THEN [@ EXCEPT !.pc = "done", !.queries = @ + 1,
                         !.decision = "create"]
          ELSE [@ EXCEPT !.pc = "creating", !.queries = @ + 1,
                         !.decision = "create",
                         !.pending = composedBody(runs[r].body,
                                                  ccfg.header, None)]]
    /\ UNCHANGED <<ccfg, prComments>>
    /\ UNCHANGED outsideComments

\* handleSkipUnchanged(effectiveBody, previous?.body || '')
handleSkipUnchanged(body, previousBodyRaw) ==
    ccfg.skipUnchanged /\ commentsEqual(body, previousBodyRaw, ccfg.header)

\* lines 394-410: shouldAppend after the migration rule
shouldAppendFor(override, previousBody) ==
    LET requested == IF override # None THEN override[1] ELSE ccfg.append
        previousHasAutoBlock ==
            /\ includes(previousBody, AUTO_COMMENT_START)
            /\ includes(previousBody, AUTO_COMMENT_END)
    IN requested /\ previousHasAutoBlock

\* a page has a match and skipUnchanged finds the content equal: no write
FindMatchThenSkip(r) ==
    /\ runs[r].pc = "finding"
    /\ targetOn(runs[r].after) # 0
    /\ LET node == prComments[targetOn(runs[r].after)]
       IN /\ handleSkipUnchanged(runs[r].body, node.body)
          /\ runs' = [runs EXCEPT ![r] =
                [@ EXCEPT !.pc = "done", !.queries = @ + 1,
                          !.previous = Some(node),
                          !.previous_comment_id = Some(node.id),
                          !.decision = "skip-unchanged"]]
    /\ UNCHANGED <<ccfg, prComments>>
    /\ UNCHANGED outsideComments

\* a page has a match and the comment is to be rewritten: updateComment is
\* called with the body getBodyOf kept
FindMatchThenUpdate(r) ==
    /\ runs[r].pc = "finding"
    /\ targetOn(runs[r].after) # 0
    /\ LET node == prComments[targetOn(runs[r].after)]
           previousBody ==
               getBodyOf(node.body,
                         shouldAppendFor(runs[r].appendOverride, node.body),
                         ccfg.hideDetails)
       IN /\ ~handleSkipUnchanged(runs[r].body, node.body)
          /\ runs' = [runs EXCEPT ![r] =
                IF blankGuard(@.body, previousBody)
                THEN [@ EXCEPT !.pc = "done", !.queries = @ + 1,
                               !.previous = Some(node),
                               !.previous_comment_id = Some(node.id),
                               !.decision = "update"]
                ELSE [@ EXCEPT !.pc = "updating", !.queries = @ + 1,
                               !.previous = Some(node),
                               !.previous_comment_id = Some(node.id),
                               !.decision = "update",
                               !.pending = composedBody(runs[r].body,
                                                        ccfg.header,
                                                        previousBody)]]
    /\ UNCHANGED <<ccfg, prComments>>
    /\ UNCHANGED outsideComments

\* a discovery query throws: ensureComment throws before any write
FindThrows(r) ==
    /\ runs[r].pc = "finding"
    /\ runs' = [runs EXCEPT ![r].pc = "threw", ![r].queries = @ + 1]
    /\ UNCHANGED <<ccfg, prComments>>
    /\ UNCHANGED outsideComments

\* a create that goes on to rewrite the comment it has just added
CreateCommentOkThenUpdates(r) ==
    /\ runs[r].pc = "creating"
    /\ prComments' =
          Append(prComments,
                 [id |-> Len(prComments) + 1,
                  author |-> authorOfPosted(ccfg.viewer),
                  isMinimized |-> FALSE,
                  body |-> runs[r].pending])
    /\ runs' = [runs EXCEPT ![r].pc = "updating", ![r].writes = @ + 1,
                            ![r].previous = Some(prComments'[Len(prComments')]),
                            ![r].created_comment_id =
                                Some(Len(prComments) + 1)]
    /\ UNCHANGED ccfg
    /\ UNCHANGED outsideComments

\* octokit.rest.issues.createComment succeeds: the comment exists, authored
\* by the token's identity; created_comment_id is set
CreateCommentOk(r) ==
    /\ runs[r].pc = "creating"
    /\ prComments' =
          Append(prComments,
                 [id |-> Len(prComments) + 1,
                  author |-> authorOfPosted(ccfg.viewer),
                  isMinimized |-> FALSE,
                  body |-> runs[r].pending])
    /\ runs' = [runs EXCEPT ![r].pc = "done", ![r].writes = @ + 1,
                            ![r].created_comment_id =
                                Some(Len(prComments) + 1)]
    /\ UNCHANGED ccfg
    /\ UNCHANGED outsideComments

\* an update that also reports the rewritten comment as created
UpdateCommentOkReportsCreated(r) ==
    /\ runs[r].pc = "updating"
    /\ prComments' =
          [prComments EXCEPT ![runs[r].previous[1].id].body = runs[r].pending]
    /\ runs' = [runs EXCEPT ![r].pc = "done", ![r].writes = @ + 1,
                            ![r].created_comment_id =
                                Some(runs[r].previous[1].id)]
    /\ UNCHANGED ccfg
    /\ UNCHANGED outsideComments

\* the updateIssueComment mutation succeeds: the body is replaced in one write
UpdateCommentOk(r) ==
    /\ runs[r].pc = "updating"
    /\ prComments' =
          [prComments EXCEPT ![runs[r].previous[1].id].body = runs[r].pending]
    /\ runs' = [runs EXCEPT ![r].pc = "done", ![r].writes = @ + 1]
    /\ UNCHANGED ccfg
    /\ UNCHANGED outsideComments

\* the create or update request fails: ensureComment throws, nothing written
WriteThrows(r) ==
    /\ runs[r].pc \in {"creating", "updating"}
    /\ runs' = [runs EXCEPT ![r].pc = "threw"]
    /\ UNCHANGED <<ccfg, prComments>>
    /\ UNCHANGED outsideComments

\* header and author_login inputs
CommentIdentities ==
    { [header |-> <<>>, authorLogin |-> <<>>],
      [header |-> <<"pr">>, authorLogin |-> <<"GitHub-Actions", "[bot]">>],
      [header |-> <<>>, authorLogin |-> <<"consentdotio">>] }

\* the inputs of the comment step; viewer is the login of the token
CommentConfigs ==
    { [header |-> i.header, authorLogin |-> i.authorLogin,
       viewer |-> <<"github-actions", "[bot]">>,
       append |-> a, hideDetails |-> h, skipUnchanged |-> s, ignoreEmpty |-> e] :
      i \in CommentIdentities, a \in BOOLEAN, h \in BOOLEAN,
      s \in BOOLEAN, e \in BOOLEAN }

Comment(i, author, minimized, body) ==
    [id |-> i, author |-> author, isMinimized |-> minimized, body |-> body]

\* comment lists a pull request holds before the first run, under inputs f
InitialCommentLists(f) ==
    { <<>>,
      << Comment(1, <<"github-actions">>, FALSE,
                 bodyWithHeader(<<"A">>, f.header)) >>,
      << Comment(1, <<"alice">>, FALSE, <<"looks good">>),
         Comment(2, <<"alice">>, FALSE,
                 <<"quoting", "\n", autoStart(f.header)>>),
         Comment(3, <<"bob">>, FALSE, <<"thanks">>),
         Comment(4, <<"github-actions">>, FALSE,
                 <<"intro", "\n">> \o bodyWithHeader(<<"<details open>">>,
                                                      f.header)) >>,
      << Comment(1, <<"github-actions">>, TRUE,
                 bodyWithHeader(<<"A">>, f.header)),
         Comment(2, <<"github-actions">>, FALSE, <<"legacy preview">>) >>,
      << Comment(1, <<"ConsentDotIO">>, FALSE,
                 bodyWithHeader(<<AUTO_COMMENT_START, "\n", "B", "\n",
                                  AUTO_COMMENT_END>>, f.header)),
         Comment(2, <<"github-actions">>, FALSE,
                 bodyWithHeader(<<"A">>, <<"other">>)) >> }

\* comment lists that put discovery to work under inputs f: several
\* accepted comments, accepted ones behind minimized or foreign ones, on a
\* later page, or none at all on several pages
DiscoveryCommentLists(f) ==
    { << Comment(1, <<"alice">>, FALSE,
                 <<"quoting", "\n", autoStart(f.header)>>),
         Comment(2, <<"github-actions">>, TRUE,
                 bodyWithHeader(<<"A">>, f.header)),
         Comment(3, <<"GitHub-Actions", "[BOT]">>, FALSE,
                 bodyWithHeader(<<"A">>, f.header)),
         Comment(4, <<"github-actions">>, FALSE,
                 bodyWithHeader(<<"A", "\n">>, f.header)) >>,
      << Comment(1, <<"github-actions">>, FALSE,
                 bodyWithHeader(<<"A">>, f.header)),
         Comment(2, <<"consentdotio">>, FALSE,
                 bodyWithHeader(<<"A">>, f.header)),
         Comment(3, <<"bob">>, FALSE, <<"thanks">>),
         Comment(4, <<"github-actions">>, FALSE,
                 bodyWithHeader(<<"A">>, f.header)),
         Comment(5, <<"ConsentDotIO", "[bot]">>, FALSE,
                 bodyWithHeader(<<"A">>, f.header)) >>,
      << Comment(1, <<"alice">>, FALSE, bodyWithHeader(<<"A">>, f.header)),
         Comment(2, <<"github-actions">>, FALSE,
                 bodyWithHeader(<<"A">>, <<"other">>)),
         Comment(3, <<"consentdotio">>, TRUE,
                 bodyWithHeader(<<"A">>, f.header)),
         Comment(4, <<"github-actions">>, FALSE, <<"legacy preview">>),
         Comment(5, <<"bob">>, FALSE, <<"thanks">>) >>,
      << Comment(1, <<"alice">>, FALSE, <<"looks good">>),
         Comment(2, <<"bob">>, FALSE, <<"thanks">>),
         Comment(3, <<"alice">>, FALSE, <<"one more">>),
         Comment(4, <<"bob">>, FALSE, <<"done">>),
         Comment(5, <<"github-actions">>, FALSE,
                 bodyWithHeader(<<"A">>, f.header)),
         Comment(6, <<"ConsentDotIO">>, FALSE,
                 bodyWithHeader(<<"A">>, f.header)) >> }

\* the comment subsystem is not in use
CommentIdle ==
    /\ ccfg = [header |-> <<>>, authorLogin |-> <<>>,
               viewer |-> <<"github-actions", "[bot]">>, append |-> FALSE,
               hideDetails |-> FALSE, skipUnchanged |-> FALSE,
               ignoreEmpty |-> FALSE]
    /\ prComments = <<>>
    /\ RunsIdle

----------------------------------------------------------------------------
(* main.ts: run                                                             *)

\* renderCommentMarkdown(url, { status }): the preview table with the link
\* and the status, ending in a line break
renderCommentMarkdown(url, status) ==
    <<"### Docs Preview", "\n", "[Open Preview](", url, ")", status, "\n">>

\* computeEffectiveBody(deploymentUrl, body)
computeEffectiveBody(url, body) ==
    IF url # "" /\ body = <<>>
    THEN renderCommentMarkdown(url, "Ready")
    ELSE body

\* typeof pullRequestNumber === 'number' && pullRequestNumber >= 1
isPullRequestRun == ctx.prNumber >= 1

\* performVercelDeployment has returned to run: the url, or nothing
\* lines 96-100: the outer executeWithRetry awaits performVercelDeployment,
\* whose every failing call sits in a try/catch of its own, so the promise
\* resolves and the outer loop returns in its first iteration
deploymentReturned == mpc = "deploying" /\ dpc = "done"

\* !deploymentUrl
noDeploymentUrl == IF dret = None THEN TRUE ELSE dret[1] = ""

\* the urls the lookup of the last successful deployment may end with
\* ('' when none is found or the lookup throws)
LastUrls == { "", "https://last.vercel.app" }

\* const body = skipMessage || rendered
skipBody(lastUrl) ==
    IF minputs.skipMessage # <<>> THEN minputs.skipMessage
    ELSE renderCommentMarkdown(IF lastUrl # "" THEN lastUrl
                               ELSE "https://vercel.com", "Skipped")

StageCall(stage, body, override) ==
    [stage |-> stage, prNumber |-> ctx.prNumber, body |-> body,
     appendOverride |-> override]

\* run ensureComment as run 1 of the comment step; run waits for it
CallEnsureComment(body, override) ==
    /\ runs[1].pc = "idle"
    /\ runs' = [runs EXCEPT ![1] = ensureCommentEntered(@, body, override)]
    /\ stages' = Append(stages, StageCall("ensureComment", body, override))
    /\ mpc' = "commenting"
    /\ UNCHANGED <<ccfg, prComments, minputs>>

\* a run that returns on a missing url whatever post_skip_comment says
DeploymentEndsSilently ==
    /\ deploymentReturned
    /\ noDeploymentUrl
    /\ mpc' = "done"
    /\ UNCHANGED <<minputs, stages>>
    /\ UNCHANGED <<retryVars, deployVars, commentVars>>
    /\ UNCHANGED outsideMain

\* lines 105-107 and 159: no url, post_skip_comment off: run returns
DeploymentSkippedSilently ==
    /\ deploymentReturned
    /\ noDeploymentUrl
    /\ ~minputs.postSkipComment
    /\ mpc' = "done"
    /\ UNCHANGED <<minputs, stages>>
    /\ UNCHANGED <<retryVars, deployVars, commentVars>>
    /\ UNCHANGED outsideMain

\* lines 105-141: no url, post_skip_comment on, a pull-request run: the
\* lookup of the last url, then ensureComment(body, { appendOverride: false })
SkipCommentOnPullRequest ==
    /\ deploymentReturned
    /\ noDeploymentUrl
    /\ minputs.postSkipComment
    /\ isPullRequestRun
    /\ \E lastUrl \in LastUrls :
          CallEnsureComment(skipBody(lastUrl), Some(FALSE))
    /\ UNCHANGED <<retryVars, deployVars>>
    /\ UNCHANGED outsideMain

\* lines 142-157: no url, post_skip_comment on, no pull request,
\* comment_on_push on: createCommitComment, whose failure is a warning
SkipCommentOnCommit ==
    /\ deploymentReturned
    /\ noDeploymentUrl
    /\ minputs.postSkipComment
    /\ ~isPullRequestRun
    /\ minputs.commentOnPush
    /\ \E lastUrl \in LastUrls, ok \in BOOLEAN :
          /\ stages' = Append(stages, StageCall("createCommitComment",
                                                skipBody(lastUrl), None))
          /\ warnings' = IF ok THEN warnings
                         ELSE Append(warnings,
                                     "Could not post commit skip comment")
    /\ mpc' = "done"
    /\ UNCHANGED minputs
    /\ UNCHANGED <<ctx, cfg, dpc, gate, allowedByPolicy, changeSet, relevant,
                   branch, targetHint, environmentName, deploymentId,
                   ghDeployments, statusCalls, deploymentUrlOutput,
                   failedMsg, dret>>
    /\ UNCHANGED <<retryVars, commentVars>>
    /\ UNCHANGED outsideMain

\* no url, post_skip_comment on, neither a pull request nor comment_on_push
SkipCommentNowhere ==
    /\ deploymentReturned
    /\ noDeploymentUrl
    /\ minputs.postSkipComment
    /\ ~isPullRequestRun
    /\ ~minputs.commentOnPush
    /\ mpc' = "done"
    /\ UNCHANGED <<minputs, stages>>
    /\ UNCHANGED <<retryVars, deployVars, commentVars>>
    /\ UNCHANGED outsideMain

\* const body = await getBody() for a message input, then
\* computeEffectiveBody(deploymentUrl, body)
effectiveBody == computeEffectiveBody(dret[1], minputs.message)

\* lines 161-174: a url, a pull-request run: maybeCommentOnPush returns
\* false at once, then ensureComment(effectiveBody, { appendOverride: true })
DeployedCommentOnPullRequest ==
    /\ deploymentReturned
    /\ ~noDeploymentUrl
    /\ isPullRequestRun
    /\ CallEnsureComment(effectiveBody, Some(TRUE))
    /\ UNCHANGED <<retryVars, deployVars>>
    /\ UNCHANGED outsideMain

\* a url, no pull request, comment_on_push off: maybeCommentOnPush returns
\* true and run returns
DeployedNoCommitComment ==
    /\ deploymentReturned
    /\ ~noDeploymentUrl
    /\ ~isPullRequestRun
    /\ ~minputs.commentOnPush
    /\ mpc' = "done"
    /\ UNCHANGED <<minputs, stages>>
    /\ UNCHANGED <<retryVars, deployVars, commentVars>>
    /\ UNCHANGED outsideMain

\* a url, no pull request, comment_on_push on, createCommitComment
\* succeeds: maybeCommentOnPush returns true and run returns
DeployedCommitCommentOk ==
    /\ deploymentReturned
    /\ ~noDeploymentUrl
    /\ ~isPullRequestRun
    /\ minputs.commentOnPush
    /\ stages' = Append(stages, StageCall("createCommitComment",
                                          effectiveBody, None))
    /\ mpc' = "done"
    /\ UNCHANGED minputs
    /\ UNCHANGED <<retryVars, deployVars, commentVars>>
    /\ UNCHANGED outsideMain

\* a url, no pull request, comment_on_push on, createCommitComment throws:
\* a warning, maybeCommentOnPush returns false, and run goes on to
\* ensureComment(effectiveBody, { appendOverride: true })
DeployedCommitCommentFails ==
    /\ deploymentReturned
    /\ ~noDeploymentUrl
    /\ ~isPullRequestRun
    /\ minputs.commentOnPush
    /\ runs[1].pc = "idle"
    /\ runs' = [runs EXCEPT ![1] =
                  ensureCommentEntered(@, effectiveBody, Some(TRUE))]
    /\ stages' = stages
                 \o << StageCall("createCommitComment", effectiveBody, None),
                       StageCall("ensureComment", effectiveBody, Some(TRUE)) >>
    /\ warnings' = Append(warnings, "Could not post commit comment")
    /\ mpc' = "commenting"
    /\ UNCHANGED <<ccfg, prComments, minputs>>
    /\ UNCHANGED <<ctx, cfg, dpc, gate, allowedByPolicy, changeSet, relevant,
                   branch, targetHint, environmentName, deploymentId,
                   ghDeployments, statusCalls, deploymentUrlOutput,
                   failedMsg, dret>>
    /\ UNCHANGED retryVars
    /\ UNCHANGED outsideMain

\* ensureComment returned: run returns
CommentStageReturns ==
    /\ mpc = "commenting"
    /\ runs[1].pc = "done"
    /\ mpc' = "done"
    /\ UNCHANGED <<minputs, stages>>
    /\ UNCHANGED <<retryVars, deployVars, commentVars>>
    /\ UNCHANGED outsideMain

\* a catch clause that starts the deployment step again
CommentStageThrowsRedeploys ==
    /\ mpc = "commenting"
    /\ runs[1].pc = "threw"
    /\ failedMsg' = Append(failedMsg, "comment stage failed")
    /\ mpc' = "deploying"
    /\ dpc' = "start"
    /\ gate' = "pending"
    /\ dret' = None
    /\ UNCHANGED <<minputs, stages>>
    /\ UNCHANGED <<ctx, cfg, allowedByPolicy, changeSet, relevant,
                   branch, targetHint, environmentName, deploymentId,
                   ghDeployments, statusCalls, warnings, deploymentUrlOutput>>
    /\ UNCHANGED <<retryVars, commentVars>>
    /\ UNCHANGED outsideMain

\* ensureComment threw: the catch clause of run calls core.setFailed
CommentStageThrows ==
    /\ mpc = "commenting"
    /\ runs[1].pc = "threw"
    /\ failedMsg' = Append(failedMsg, "comment stage failed")
    /\ mpc' = "done"
    /\ UNCHANGED <<minputs, stages>>
    /\ UNCHANGED <<ctx, cfg, dpc, gate, allowedByPolicy, changeSet, relevant,
                   branch, targetHint, environmentName, deploymentId,
                   ghDeployments, statusCalls, warnings, deploymentUrlOutput,
                   dret>>
    /\ UNCHANGED <<retryVars, commentVars>>
    /\ UNCHANGED outsideMain

\* the inputs run reads itself
MainInputs ==
    { [postSkipComment |-> p, commentOnPush |-> c,
       skipMessage |-> t.skipMessage, message |-> t.message] :
      p \in BOOLEAN, c \in BOOLEAN,
      t \in { [skipMessage |-> <<>>, message |-> <<>>],
              [skipMessage |-> <<"Deployment skipped">>,
               message |-> <<"A">>] } }

\* the inputs of the deployment step in a run: the defaults with
\* credentials, and one of them changed at a time
MainConfigs ==
    LET defaults == [credsPresent |-> TRUE, setupDocs |-> FALSE,
                     deployOnPushBranches |-> <<>>,
                     deployOnPrBaseBranches |-> <<>>,
                     onlyIfChanged |-> FALSE, changeGlobs |-> <<>>,
                     checkTemplateChanges |-> FALSE, vercelTarget |-> <<>>]
    IN { defaults,
         [defaults EXCEPT !.credsPresent = FALSE],
         [defaults EXCEPT !.setupDocs = TRUE],
         [defaults EXCEPT !.onlyIfChanged = TRUE] }

\* the inputs of the comment step in a run
MainCommentConfigs ==
    { f \in CommentConfigs :
        /\ f.header = <<>>
        /\ f.authorLogin = <<>>
        /\ ~f.append
        /\ ~f.hideDetails
        /\ ~f.ignoreEmpty }

\* the comments of the pull request when run starts
MainCommentLists(f) ==
    { <<>>,
      << Comment(1, <<"alice">>, FALSE, <<"looks good">>),
         Comment(2, <<"bob">>, FALSE, <<"thanks">>),
         Comment(3, <<"github-actions">>, FALSE,
                 bodyWithHeader(<<"A">>, f.header)) >> }

----------------------------------------------------------------------------
(* github/pr-comment: createComment and updateComment called on their own   *)

\* the header argument
WriteHeaders == { <<>>, <<"pr">>, <<" ">> }

\* the body argument: empty, plain, ending in a newline, a blank line, and a
\* text that already carries the marker pair of the default header
WriteBodies ==
    { <<>>, <<"B">>, <<"B", "\n">>, <<"\n">>, bodyWithHeader(<<"B">>, <<>>) }

\* the previousBody argument under header h: absent, empty, a text without
\* markers, a body this module wrote, the same with text a person added
\* around the markers, and texts with a lone or misplaced marker
WritePreviousBodies(h) ==
    { None,
      Some(<<>>),
      Some(<<"legacy preview">>),
      Some(bodyWithHeader(<<"A">>, h)),
      Some(<<"intro", "\n">> \o bodyWithHeader(<<"A">>, h)
           \o <<"\n", "thanks">>),
      Some(<<autoStart(h), "\n", "A">>),
      Some(<<autoEnd(h), "\n", "A", "\n", autoStart(h)>>) }

\* createComment or updateComment is about to be called
WriteCalled(fn, body, header, previousBody) ==
    /\ call = [fn |-> fn, body |-> body, header |-> header,
               previousBody |-> previousBody]
    /\ ret = None

\* what the call did: warned by core.warning, wrote by the API request
Wrote(text) ==
    Some([threw |-> FALSE, warned |-> FALSE, wrote |-> TRUE,
          written |-> text])

NothingWritten(warned, threw) ==
    Some([threw |-> threw, warned |-> warned, wrote |-> FALSE,
          written |-> <<>>])

\* updateComment: the blank check, then the updateIssueComment mutation
\* with the composed body
ApplyUpdateComment ==
    /\ call.fn = "updateComment"
    /\ ret = None
    /\ ret' = IF blankGuard(call.body, call.previousBody)
              THEN NothingWritten(TRUE, FALSE)
              ELSE Wrote(composedBody(call.body, call.header,
                                      call.previousBody))
    /\ UNCHANGED call
    /\ UNCHANGED outsideCall

\* createComment: the blank check, then issues.createComment with the
\* composed body
ApplyCreateComment ==
    /\ call.fn = "createComment"
    /\ ret = None
    /\ ret' = IF blankGuard(call.body, call.previousBody)
              THEN NothingWritten(TRUE, FALSE)
              ELSE Wrote(composedBody(call.body, call.header,
                                      call.previousBody))
    /\ UNCHANGED call
    /\ UNCHANGED outsideCall

\* the API request of either function rejects: the call throws
WriteRequestRejects ==
    /\ call.fn \in {"createComment", "updateComment"}
    /\ ret = None
    /\ ~blankGuard(call.body, call.previousBody)
    /\ ret' = NothingWritten(FALSE, TRUE)
    /\ UNCHANGED call
    /\ UNCHANGED outsideCall

----------------------------------------------------------------------------
(* Specifications                                                           *)

\* performVercelDeployment has not been called
DeployIdle ==
    /\ ctx = [eventName |-> "push", ref |-> <<>>, headRef |-> <<>>,
              baseRef |-> <<>>, prNumber |-> 0]
    /\ cfg = [credsPresent |-> FALSE, setupDocs |-> FALSE,
              deployOnPushBranches |-> <<>>, deployOnPrBaseBranches |-> <<>>,
              onlyIfChanged |-> FALSE, changeGlobs |-> <<>>,
              checkTemplateChanges |-> FALSE, vercelTarget |-> <<>>]
    /\ dpc = "idle"
    /\ gate = "pending"
    /\ allowedByPolicy = None
    /\ changeSet = None
    /\ relevant = None
    /\ branch = <<>>
    /\ targetHint = <<>>
    /\ environmentName = <<>>
    /\ deploymentId = None
    /\ ghDeployments = <<>>
    /\ statusCalls = <<>>
    /\ warnings = <<>>
    /\ deploymentUrlOutput = None
    /\ failedMsg = <<>>
    /\ dret = None

\* one executeWithRetry call with any option value
InitRetry ==
    /\ \E o \in RetryOptionValues : RetryEntered(o)
    /\ DeployIdle
    /\ CommentIdle
    /\ CallIdle
    /\ VercelIdle
    /\ MainIdle

NextRetry ==
    \/ InvokeOperation
    \/ OperationResolves
    \/ OperationRejects
    \/ GiveUp
    \/ ScheduleRetry
    \/ SleepCompletes
    \/ ThrowAfterLoop

SpecRetry == InitRetry /\ [][NextRetry]_vars

\* one performVercelDeployment call under any context and inputs
InitDeploy ==
    /\ \E c \in Contexts, f \in Configs : DeployEntered(c, f)
    /\ RetryIdle
    /\ CommentIdle
    /\ CallIdle
    /\ VercelIdle
    /\ MainIdle

NextDeploy ==
    \/ SkipNoCredentials
    \/ SetupDocsFails
    \/ PolicyDenies
    \/ BeginChangeDetection
    \/ BeginDeployment
    \/ ChangesIrrelevantSkip
    \/ ChangesProceed
    \/ CreateGitHubDeploymentOk
    \/ CreateGitHubDeploymentFails
    \/ SetInProgress
    \/ EnterDeployRetry
    \/ InvokeOperation
    \/ OperationResolves
    \/ OperationRejects
    \/ GiveUp
    \/ ScheduleRetry
    \/ SleepCompletes
    \/ DeploySucceededNoRecord
    \/ DeploySucceeded
    \/ SetSuccess
    \/ DeployFailedNoRecord
    \/ DeployFailed
    \/ SetFailure

SpecDeploy == InitDeploy /\ [][NextDeploy]_vars

\* the contexts and allowlist inputs shouldDeployByPolicy is applied to
PolicyContexts ==
    [ eventName : {"push", "pull_request", "pull_request_target"},
      ref : { <<>>, <<"refs/heads/", "main">>, <<"refs/heads/", "canary">>,
              <<"refs/heads/", "feature/x">>, <<"refs/tags/", "main">> },
      headRef : { <<>> },
      baseRef : { <<>>, <<"main">>, <<"canary">>, <<"feature/x">> },
      prNumber : {0} ]

PolicyCsvInputs ==
    { <<>>,
      <<"main", ",", "canary">>,
      <<" ", "main", " ", ",", " ", "canary", " ">>,
      <<"main", ",", ",", "feature/x", ",">>,
      <<"feature/x">>,
      <<",", " ">> }

\* shouldDeployByPolicy is about to be called
InitPolicy ==
    /\ \E c \in PolicyContexts, push \in PolicyCsvInputs, pr \in PolicyCsvInputs :
          /\ ctx = c
          /\ cfg = [credsPresent |-> TRUE, setupDocs |-> FALSE,
                    deployOnPushBranches |-> push,
                    deployOnPrBaseBranches |-> pr,
                    onlyIfChanged |-> FALSE, changeGlobs |-> <<>>,
                    checkTemplateChanges |-> FALSE, vercelTarget |-> <<>>]
    /\ dpc = "policy-call"
    /\ gate = "pending"
    /\ allowedByPolicy = None
    /\ changeSet = None
    /\ relevant = None
    /\ branch = <<>>
    /\ targetHint = <<>>
    /\ environmentName = <<>>
    /\ deploymentId = None
    /\ ghDeployments = <<>>
    /\ statusCalls = <<>>
    /\ warnings = <<>>
    /\ deploymentUrlOutput = None
    /\ failedMsg = <<>>
    /\ dret = None
    /\ RetryIdle
    /\ CommentIdle
    /\ CallIdle
    /\ VercelIdle
    /\ MainIdle

\* const allowedByPolicy = shouldDeployByPolicy(deployOnPushBranches,
\*     deployOnPrBaseBranches)
ApplyShouldDeployByPolicy ==
    /\ dpc = "policy-call"
    /\ allowedByPolicy' =
          Some(shouldDeployByPolicy(ctx, cfg.deployOnPushBranches,
                                    cfg.deployOnPrBaseBranches))
    /\ dpc' = "policy-returned"
    /\ UNCHANGED <<ctx, cfg, gate, changeSet, relevant, branch, targetHint,
                   environmentName, deploymentId, ghDeployments, statusCalls,
                   warnings, deploymentUrlOutput, failedMsg, dret>>
    /\ UNCHANGED outsideDeploy

NextPolicy == ApplyShouldDeployByPolicy

SpecPolicy == InitPolicy /\ [][NextPolicy]_vars

\* the number of comments the discovery predicate accepts
MatchCount(f, comments) ==
    Cardinality({i \in 1..Len(comments) : matches(comments[i], f)})

\* runs of ensureComment on one pull request, one after the other
InitComments ==
    /\ \E f \in CommentConfigs :
          /\ ccfg = f
          /\ \E l \in InitialCommentLists(f) :
                /\ MatchCount(f, l) <= 1
                /\ prComments = l
    /\ RunsIdle
    /\ RetryIdle
    /\ DeployIdle
    /\ CallIdle
    /\ VercelIdle
    /\ MainIdle

NextCommentsSequential ==
    \/ StartRunAlone
    \/ \E r \in Runs :
          \/ FindNextPage(r)
          \/ FindNothingThenCreate(r)
          \/ FindMatchThenSkip(r)
          \/ FindMatchThenUpdate(r)
          \/ FindThrows(r)
          \/ CreateCommentOk(r)
          \/ UpdateCommentOk(r)
          \/ WriteThrows(r)

SpecCommentsSequential == InitComments /\ [][NextCommentsSequential]_vars

\* runs of ensureComment, one after the other, on a pull request whose
\* comments may hold any number of accepted comments
InitDiscovery ==
    /\ \E f \in CommentConfigs :
          /\ ccfg = f
          /\ \E l \in DiscoveryCommentLists(f) : prComments = l
    /\ RunsIdle
    /\ RetryIdle
    /\ DeployIdle
    /\ CallIdle
    /\ VercelIdle
    /\ MainIdle

SpecDiscovery == InitDiscovery /\ [][NextCommentsSequential]_vars

\* runs of ensureComment on one pull request, interleaved at API calls
NextComments ==
    \/ StartRun
    \/ \E r \in Runs :
          \/ FindNextPage(r)
          \/ FindNothingThenCreate(r)
          \/ FindMatchThenSkip(r)
          \/ FindMatchThenUpdate(r)
          \/ FindThrows(r)
          \/ CreateCommentOk(r)
          \/ UpdateCommentOk(r)
          \/ WriteThrows(r)

SpecComments == InitComments /\ [][NextComments]_vars

\* one execution of run, from the call of performVercelDeployment (the
\* token has been obtained) to its return
InitMain ==
    /\ \E c \in Contexts, f \in MainConfigs : DeployEntered(c, f)
    /\ RetryIdle
    /\ \E f \in MainCommentConfigs :
          /\ ccfg = f
          /\ \E l \in MainCommentLists(f) : prComments = l
    /\ RunsIdle
    /\ CallIdle
    /\ VercelIdle
    /\ minputs \in MainInputs
    /\ mpc = "deploying"
    /\ stages = <<>>

NextMain ==
    \/ NextDeploy
    \/ DeploymentSkippedSilently
    \/ SkipCommentOnPullRequest
    \/ SkipCommentOnCommit
    \/ SkipCommentNowhere
    \/ DeployedCommentOnPullRequest
    \/ DeployedNoCommitComment
    \/ DeployedCommitCommentOk
    \/ DeployedCommitCommentFails
    \/ CommentStageReturns
    \/ CommentStageThrows
    \/ \E r \in Runs :
          \/ FindNextPage(r)
          \/ FindNothingThenCreate(r)
          \/ FindMatchThenSkip(r)
          \/ FindMatchThenUpdate(r)
          \/ FindThrows(r)
          \/ CreateCommentOk(r)
          \/ UpdateCommentOk(r)
          \/ WriteThrows(r)

SpecMain == InitMain /\ [][NextMain]_vars

\* one call of createComment or updateComment
InitWrite ==
    /\ \E fn \in {"createComment", "updateComment"}, body \in WriteBodies,
          header \in WriteHeaders :
          \E previousBody \in WritePreviousBodies(header) :
              WriteCalled(fn, body, header, previousBody)
    /\ RetryIdle
    /\ DeployIdle
    /\ CommentIdle
    /\ VercelIdle
    /\ MainIdle

NextWrite ==
    \/ ApplyUpdateComment
    \/ ApplyCreateComment
    \/ WriteRequestRejects

SpecWrite == InitWrite /\ [][NextWrite]_vars

\* one call of minimatch on a path and a pattern
InitGlob ==
    /\ \E path \in GlobPaths, glob \in GlobPatterns : MinimatchCalled(path, glob)
    /\ RetryIdle
    /\ DeployIdle
    /\ CommentIdle
    /\ VercelIdle
    /\ MainIdle

NextGlob == ApplyMinimatch

SpecGlob == InitGlob /\ [][NextGlob]_vars

\* one call of ErrorHandler.handleVercel
InitClassify ==
    /\ \E message \in ClassifiedMessages : HandleVercelCalled(message)
    /\ RetryIdle
    /\ DeployIdle
    /\ CommentIdle
    /\ VercelIdle
    /\ MainIdle

NextClassify == ApplyHandleVercel

SpecClassify == InitClassify /\ [][NextClassify]_vars

\* the branch and target resolution at the start of deployToVercel
InitTarget ==
    /\ \E t \in TargetOptions, ref \in RefValues, head \in HeadRefValues :
          TargetCalled(t, [GITHUB_REF |-> ref, GITHUB_HEAD_REF |-> head])
    /\ RetryIdle
    /\ DeployIdle
    /\ CommentIdle
    /\ VercelIdle
    /\ MainIdle

NextTarget == ApplyResolveTarget

SpecTarget == InitTarget /\ [][NextTarget]_vars

\* one call of deployToVercel, from its deployment request on
InitVercel ==
    /\ \E o \in VercelOptions : VercelCalled(o)
    /\ RetryIdle
    /\ DeployIdle
    /\ CommentIdle
    /\ CallIdle
    /\ MainIdle

NextVercel ==
    \/ DeployRequestErrors
    \/ DeployResponseRejected
    \/ DeployResponseUnparseable
    \/ DeployResponseWithoutUrl
    \/ DeployResponseAccepted
    \/ AliasSucceeds
    \/ AliasFails

SpecVercel == InitVercel /\ [][NextVercel]_vars

----------------------------------------------------------------------------
(* Properties of executeWithRetry                                           *)

\* number of invocations of the operation started so far
Attempts == Len(outcomes) + inFlight

\* the option values as the caller wrote them, with the documented defaults
GivenMaxRetries ==
    IF options.isNumber THEN options.num
    ELSE IF options.maxRetries = None THEN 3 ELSE options.maxRetries[1]

GivenBackoffBaseMs ==
    IF options.isNumber \/ options.backoffBaseMs = None
    THEN 1000 ELSE options.backoffBaseMs[1]

GivenMaxDelayMs ==
    IF options.isNumber \/ options.maxDelayMs = None
    THEN 30000 ELSE options.maxDelayMs[1]

\* the classification of the failure of the i-th attempt
RetryableFailure(i) ==
    /\ ~outcomes[i].ok
    /\ handleVercel(outcomes[i].error.message).retryable

\* C3: with maxRetries = n >= 1, an operation that fails k < n times with
\* retryable errors and then succeeds returns the success value after exactly
\* k+1 attempts; a failure classified non-retryable ends the call (an
\* operation failing non-retryably is attempted exactly once); the call gives
\* up on retryable failures only after n attempts; never more than n attempts.
C3_RetryAttemptCounts ==
    GivenMaxRetries >= 1 =>
        /\ Attempts <= GivenMaxRetries
        /\ \A k \in 0..(GivenMaxRetries - 1) :
              ( /\ Len(outcomes) = k + 1
                /\ \A i \in 1..k : RetryableFailure(i)
                /\ outcomes[k + 1].ok )
              => /\ rpc = "returned"
                 /\ result = Some(outcomes[k + 1].value)
                 /\ Attempts = k + 1
        /\ \A i \in 1..Len(outcomes) :
              (~outcomes[i].ok /\ ~RetryableFailure(i))
              => (i = Len(outcomes) /\ inFlight = 0 /\ rpc \in {"caught", "thrown"})
        /\ (Len(outcomes) >= 1 /\ ~outcomes[1].ok /\ ~RetryableFailure(1))
              => Attempts = 1
        /\ rpc = "thrown"
              => \/ ~RetryableFailure(Len(outcomes))
                 \/ Len(outcomes) = GivenMaxRetries

\* two retryable failures, then success on the third attempt
C3_Witness ==
    /\ rpc = "returned"
    /\ Len(outcomes) = 3
    /\ RetryableFailure(1)
    /\ RetryableFailure(2)
    /\ outcomes[3].ok

\* the number of core.error lines of kind `k`
LinesOf(k) == Cardinality({i \in 1..Len(errLog) : errLog[i].line = k})

\* C4: when executeWithRetry gives up after a failed attempt it has made no
\* further attempt, has emitted the diagnostic (message, suggestion, action
\* items) exactly once and for that error, and throws the very error the last
\* attempt raised; nothing is logged before it gives up.
C4_GiveUpRethrowsOriginal ==
    /\ (thrown # None /\ outcomes # <<>>) =>
          LET n  == Len(outcomes)
              e  == outcomes[n].error
              ae == handleVercel(e.message)
          IN /\ ~outcomes[n].ok
             /\ thrown = Some(e)
             /\ e.raisedBy = n
             /\ Attempts = n
             /\ (~ae.retryable \/ n = GivenMaxRetries)
             /\ LinesOf("failure") = 1
             /\ LinesOf("suggestion") = 1
             /\ LinesOf("item") = Len(ae.actionItems)
             /\ \A i \in 1..Len(errLog) : errLog[i].of = e
             /\ errLog[1].text = e.message
             /\ errLog[2].text = <<ae.suggestion>>
             /\ \A j \in 1..Len(ae.actionItems) :
                   errLog[2 + j].text = <<ae.actionItems[j]>>
    /\ thrown = None => errLog = <<>>

\* gave up on a retryable error because the third of three attempts failed
C4_Witness ==
    /\ rpc = "thrown"
    /\ GivenMaxRetries = 3
    /\ Len(outcomes) = 3
    /\ RetryableFailure(3)
    /\ outcomes[1].error.message # outcomes[3].error.message

\* C5: between failed attempt a and attempt a+1 the sleeper is called exactly
\* once, with min(maxDelayMs, 2^a * backoffBaseMs) (defaults 30000 and 1000),
\* and it is not called after the attempt that ends the call.
C5_BackoffDelay ==
    /\ \A i \in 1..Len(sleeps) :
          /\ sleeps[i].after = i
          /\ i <= Len(outcomes)
          /\ ~outcomes[i].ok
          /\ sleeps[i].ms =
                (IF 2 ^ i * GivenBackoffBaseMs < GivenMaxDelayMs
                 THEN 2 ^ i * GivenBackoffBaseMs ELSE GivenMaxDelayMs)
    /\ \A a \in 1..Attempts : a > 1 => Len(sleeps) >= a - 1
    /\ rpc \in {"returned", "thrown"} /\ outcomes # <<>>
          => Len(sleeps) = Len(outcomes) - 1

\* the second sleep is capped by maxDelayMs, the first one is not
C5_Witness ==
    /\ Len(sleeps) = 2
    /\ rpc = "awaiting"
    /\ sleeps[1].ms = 2 * GivenBackoffBaseMs
    /\ sleeps[1].ms < GivenMaxDelayMs
    /\ sleeps[2].ms = GivenMaxDelayMs
    /\ 4 * GivenBackoffBaseMs > GivenMaxDelayMs

\* C6: at most one invocation of the operation is in flight, and while
\* attempt a+1 is in flight every earlier attempt has failed, the failure of
\* attempt a has been classified, and a backoff sleep after each of them has
\* completed.
C6_SequentialAttempts ==
    /\ inFlight <= 1
    /\ inFlight = 1 =>
          /\ Len(outcomes) = attempt - 1
          /\ \A i \in 1..Len(outcomes) : ~outcomes[i].ok
          /\ Len(sleeps) = Len(outcomes)
          /\ \A i \in 1..Len(sleeps) : sleeps[i].done /\ sleeps[i].after = i
          /\ Len(outcomes) >= 1
                => /\ last # None
                   /\ last[1] = handleVercel(outcomes[Len(outcomes)].error.message)

\* the third attempt is in flight
C6_Witness ==
    /\ inFlight = 1
    /\ attempt = 3
    /\ Len(outcomes) = 2

----------------------------------------------------------------------------
(* Properties of performVercelDeployment and the deployment recorder        *)

\* the positions of the terminal status calls
TerminalCalls ==
    {i \in 1..Len(statusCalls) : statusCalls[i].state \in {"success", "failure"}}

\* C7: for a deployment record that was created, in_progress is issued before
\* the remote deploy is attempted and afterwards exactly one terminal status:
\* success with the deployment URL when the deploy returned one, failure when
\* the deploy gave up; never both, never a terminal status before
\* in_progress; without a record no status is issued.
C7_StatusLifecycle ==
    /\ deploymentId = None => statusCalls = <<>>
    /\ \A i \in 1..Len(statusCalls) :
          /\ statusCalls[i].deployment_id = deploymentId[1]
          /\ statusCalls[i].state \in {"in_progress", "success", "failure"}
    /\ (deploymentId # None /\ Attempts >= 1) =>
          /\ Len(statusCalls) >= 1
          /\ statusCalls[1].state = "in_progress"
          /\ statusCalls[1].deployCalls = 0
    /\ \A i \in 1..Len(statusCalls) :
          statusCalls[i].state = "in_progress" => i = 1
    /\ Cardinality(TerminalCalls) <= 1
    /\ \A i \in TerminalCalls :
          /\ i = 2
          /\ statusCalls[1].state = "in_progress"
          /\ inFlight = 0
          /\ statusCalls[i].deployCalls = Len(outcomes)
          /\ Len(outcomes) >= 1
          /\ statusCalls[i].state = "success" =>
                /\ outcomes[Len(outcomes)].ok
                /\ statusCalls[i].environment_url
                      = Some(outcomes[Len(outcomes)].value)
          /\ statusCalls[i].state = "failure" =>
                /\ ~outcomes[Len(outcomes)].ok
                /\ thrown # None
                /\ statusCalls[i].environment_url = None
    /\ (dpc = "done" /\ deploymentId # None) => Cardinality(TerminalCalls) = 1

\* a record whose deploy gave up after three attempts: in_progress, failure
C7_Witness ==
    /\ dpc = "done"
    /\ deploymentId # None
    /\ Len(statusCalls) = 2
    /\ statusCalls[2].state = "failure"
    /\ Len(outcomes) = 3

\* C8: once the gates said go, the remote deploy is attempted and the step
\* returns the URL of the successful attempt (nothing when the deploy gave
\* up), whether or not the create-deployment call or a status call failed.
C8_RecorderBestEffort ==
    (dpc = "done" /\ gate = "go") =>
        /\ Len(outcomes) >= 1
        /\ inFlight = 0
        /\ rpc \in {"returned", "thrown"}
        /\ dret = (IF outcomes[Len(outcomes)].ok
                   THEN Some(outcomes[Len(outcomes)].value) ELSE None)
        /\ outcomes[Len(outcomes)].ok => deploymentUrlOutput = dret

\* the create-deployment call failed and the step still returned the URL
C8_Witness ==
    /\ dpc = "done"
    /\ gate = "go"
    /\ deploymentId = None
    /\ "Could not create GitHub Deployment" \in SeqToSet(warnings)
    /\ dret # None

\* the change gate was consulted and the changed-file list was obtained
ChangeSetComputed ==
    /\ cfg.onlyIfChanged
    /\ allowedByPolicy = Some(TRUE)
    /\ changeSet # None
    /\ ~changeSet[1].threw

\* some changed path matches some glob in force (the configured globs, the
\* three default globs when none is configured)
SomePathMatches ==
    \E i \in 1..Len(changeSet[1].paths) :
        \E j \in 1..Len(effectiveGlobs(cfg.changeGlobs)) :
            minimatch(changeSet[1].paths[i], effectiveGlobs(cfg.changeGlobs)[j])

ChangeRequestFailed ==
    /\ cfg.onlyIfChanged
    /\ changeSet # None
    /\ changeSet[1].threw

\* C11: when the request for the changed files throws, on a pull-request
\* event as on a push event, detectRelevantChanges answers true and logs one
\* warning, and the deployment is not skipped by the change gate.
C11_ChangeGateFailsOpen ==
    ChangeRequestFailed =>
        /\ relevant = Some(TRUE)
        /\ Cardinality({i \in 1..Len(warnings) :
                          warnings[i] = "change detection failed"}) = 1
        /\ gate = "go"

\* the request failed on a pull-request event with checkTemplateChanges off,
\* and the deployment was started
C11_Witness ==
    /\ ChangeRequestFailed
    /\ isPR(ctx)
    /\ ~cfg.checkTemplateChanges
    /\ gate = "go"
    /\ ghDeployments # <<>>

----------------------------------------------------------------------------
(* Properties of the glob matcher                                           *)

\* a pattern within the length and wildcard limits
WithinGlobLimits(glob) == CharLen(glob) <= 1000 /\ StarCount(glob) <= 20

\* whole-path matching as the patterns are documented: '**' stands for any
\* characters, '*' for any characters other than '/', anything else for itself
RECURSIVE GlobMatches(_, _, _, _)
GlobMatches(path, i, glob, j) ==
    IF j > Len(glob) THEN i > Len(path)
    ELSE IF glob[j] = "*" /\ j < Len(glob) /\ glob[j + 1] = "*"
         THEN \E k \in i..(Len(path) + 1) : GlobMatches(path, k, glob, j + 2)
    ELSE IF glob[j] = "*"
         THEN \E k \in i..(Len(path) + 1) :
                 /\ \A m \in i..(k - 1) : path[m] # "/"
                 /\ GlobMatches(path, k, glob, j + 1)
    ELSE /\ i <= Len(path)
         /\ path[i] = glob[j]
         /\ GlobMatches(path, i + 1, glob, j + 1)

MinimatchReturned == call.fn = "minimatch" /\ ret # None

\* C12: for a pattern within the limits, minimatch(path, glob) is true exactly
\* when the whole path matches the pattern with '**' standing for any
\* characters including '/', '*' for any run of characters other than '/', and
\* every other character for itself.
C12_GlobSemantics ==
    (MinimatchReturned /\ WithinGlobLimits(call.glob)) =>
        /\ ~ret[1].threw
        /\ ret[1].value = GlobMatches(call.path, 1, call.glob, 1)

\* C13: a pattern of more than 1000 characters or with more than 20 wildcards
\* makes the call fail with a configuration error; a pattern within both
\* limits is accepted and no error is raised.
C13_OverLimitGlobRejected ==
    MinimatchReturned =>
        IF WithinGlobLimits(call.glob)
        THEN ~ret[1].threw /\ ret[1].caught = ""
        ELSE ret[1].threw /\ ret[1].error = "ConfigurationError"

----------------------------------------------------------------------------
(* Properties of the error classification                                   *)

\* the message of the classified error contains the phrase, in any case
MessageHas(phrase) ==
    \E i \in 1..Len(call.message) : LowerToken(call.message[i]) = phrase

\* C14: handleVercel classifies by the first phrase of the precedence list
\* that the lowercased message contains: 'project not found' gives
\* configuration and not retryable, 'rate limit' api_limit and retryable,
\* 'build failed' deployment and retryable, none of them unknown and
\* retryable; the message is passed through.
C14_ClassificationPrecedence ==
    (call.fn = "handleVercel" /\ ret # None) =>
        /\ ret[1].message = call.message
        /\ MessageHas("project not found")
              => ret[1].type = "configuration" /\ ~ret[1].retryable
        /\ (~MessageHas("project not found") /\ MessageHas("rate limit"))
              => ret[1].type = "api_limit" /\ ret[1].retryable
        /\ (~MessageHas("project not found") /\ ~MessageHas("rate limit")
              /\ MessageHas("build failed"))
              => ret[1].type = "deployment" /\ ret[1].retryable
        /\ (~MessageHas("project not found") /\ ~MessageHas("rate limit")
              /\ ~MessageHas("build failed"))
              => ret[1].type = "unknown" /\ ret[1].retryable

\* a message with 'RATE LIMIT' before 'Project not found' was classified as
\* a configuration error
C14_Witness ==
    /\ call.fn = "handleVercel"
    /\ ret # None
    /\ call.message = <<"RATE LIMIT", "Project not found">>
    /\ ret[1].type = "configuration"
    /\ ~ret[1].retryable

----------------------------------------------------------------------------
(* Properties of the branch and target resolution                           *)

TargetResolved == call.fn = "deployToVercel" /\ ret # None

\* the branch the precedence rules name for the environment of the call
BranchByPrecedence ==
    LET ref == call.env.GITHUB_REF
        head == call.env.GITHUB_HEAD_REF
    IN CASE head # <<>> -> head
         [] head = <<>> /\ Len(ref) > 1 /\ ref[1] = "refs/heads/" -> Tail(ref)
         [] head = <<>> /\ Len(ref) > 1 /\ ref[1] = "refs/tags/" -> Tail(ref)
         [] OTHER -> <<"unknown">>

\* options.target names a target
OverrideGiven == call.target \in { <<"production">>, <<"staging">> }

\* C15: without an explicit override the target is production exactly when
\* the resolved branch (head ref first, else the branch parsed from the ref)
\* is main, and staging otherwise; with an explicit override the target is
\* the override.
C15_TargetFollowsResolvedBranch ==
    TargetResolved =>
        IF OverrideGiven THEN ret[1].target = call.target
        ELSE ret[1].target =
                IF BranchByPrecedence = <<"main">> THEN <<"production">>
                ELSE <<"staging">>

\* C16: getBranch returns a non-empty GITHUB_HEAD_REF; else the name after
\* refs/heads/ in GITHUB_REF; else the name after refs/tags/; else 'unknown',
\* also when GITHUB_REF is missing or of another form.
C16_BranchPrecedence ==
    TargetResolved => ret[1].branch = BranchByPrecedence

\* with GITHUB_REF = refs/heads/main and GITHUB_HEAD_REF = feature/x the
\* branch is feature/x
C16_Witness ==
    /\ TargetResolved
    /\ call.env.GITHUB_REF = <<"refs/heads/", "main">>
    /\ call.env.GITHUB_HEAD_REF = <<"feature/x">>
    /\ ret[1].branch = <<"feature/x">>

----------------------------------------------------------------------------
(* Properties of deployToVercel                                             *)

\* deployToVercel returned after attempting its alias candidates
ReturnedAfterAliases ==
    /\ vpc = "returned"
    /\ aliasLog # <<>>

\* the attempts on a candidate with a '.' that succeeded
AssignedWithDot ==
    { i \in 1..Len(aliasLog) :
        /\ aliasLog[i].ok
        /\ \E k \in 1..Len(aliasLog[i].domain) : aliasLog[i].domain[k] = "." }

\* the URL the deployment response named
DefaultUrl == <<"https://">> \o response[1].json.url

\* C17: when deployToVercel returns after its alias loop, every candidate was
\* attempted, in order, whatever the earlier outcomes; the returned URL is
\* https://<d> for the first candidate d containing '.' whose assignment
\* succeeded, and the default deployment URL when there is none.
C17_CanonicalAlias ==
    ReturnedAfterAliases =>
        /\ Len(aliasLog) = Len(allAliases(vopts))
        /\ \A i \in 1..Len(aliasLog) :
              aliasLog[i].domain = allAliases(vopts)[i]
        /\ IF AssignedWithDot = {}
           THEN vret[1].url = DefaultUrl
           ELSE \E i \in AssignedWithDot :
                   /\ \A k \in AssignedWithDot : i <= k
                   /\ vret[1].url = <<"https://">> \o aliasLog[i].domain

\* the first candidate failed, the second and the third were assigned, and
\* the second one became the returned URL
C17_Witness ==
    /\ ReturnedAfterAliases
    /\ Len(aliasLog) = 3
    /\ ~aliasLog[1].ok
    /\ aliasLog[2].ok
    /\ aliasLog[3].ok
    /\ AssignedWithDot = {2, 3}
    /\ vret[1].url = <<"https://">> \o aliasLog[2].domain
    /\ vret[1].url # DefaultUrl

\* C18: deployToVercel ends with an error or with a result whose url is
\* https:// followed by a non-empty host; a 2xx response without a deployment
\* URL ends in an error, a response that is not 2xx ends in an error that
\* carries its status and body.
C18_UrlNeverEmpty ==
    vpc \in {"returned", "threw"} =>
        /\ vret # <<>>
        /\ vpc = "threw" <=> vret[1].threw
        /\ ~vret[1].threw =>
              /\ Len(vret[1].url) > 1
              /\ vret[1].url[1] = "https://"
        /\ (response[1].kind = "http" /\ Is2xx(response[1].status)
              /\ (~response[1].parses \/ response[1].json.url = <<>>))
              => vret[1].threw
        /\ (response[1].kind = "http" /\ ~Is2xx(response[1].status))
              => /\ vret[1].threw
                 /\ vret[1].error = "Vercel API error"
                 /\ vret[1].status = response[1].status
                 /\ vret[1].body = << [parses |-> response[1].parses,
                                       json |-> response[1].json] >>

\* a 201 response with an id but no url ended in the missing-URL error
C18_Witness ==
    /\ vpc = "threw"
    /\ response[1].kind = "http"
    /\ response[1].status = <<201>>
    /\ response[1].parses
    /\ response[1].json.url = <<>>
    /\ response[1].json.id # <<>>
    /\ vret[1].threw
    /\ vret[1].error = "Vercel did not return a deployment URL."

----------------------------------------------------------------------------
(* Properties of the policy gate                                            *)

\* the entries of a comma-separated input: the maximal comma-free stretches,
\* trimmed, the empty ones left out
CsvEntries(csv) ==
    { trim(SubSeq(csv, i, j)) :
        <<i, j>> \in { ij \in (1..(Len(csv) + 1)) \X (0..Len(csv)) :
                         /\ ij[1] <= ij[2] + 1
                         /\ (ij[1] = 1 \/ csv[ij[1] - 1] = ",")
                         /\ (ij[2] = Len(csv) \/ csv[ij[2] + 1] = ",")
                         /\ \A k \in ij[1]..ij[2] : csv[k] # "," } }
    \ { <<>> }

\* the allowlist an input stands for
Allowlist(csv) ==
    IF csv = <<>> THEN { <<"main">>, <<"canary">> } ELSE CsvEntries(csv)

\* the ref with a leading refs/heads/ taken off
BranchOfRef(ref) ==
    IF ref # <<>> /\ ref[1] = "refs/heads/" THEN Tail(ref) ELSE ref

\* C9: on a push event the result is true iff the ref without refs/heads/ is
\* in the push allowlist, on a pull-request event iff the PR's base branch is
\* in the PR-base allowlist.
C9_PolicyIffAllowlisted ==
    allowedByPolicy # None =>
        /\ ctx.eventName = "push" =>
              (allowedByPolicy[1] <=>
                  BranchOfRef(ctx.ref) \in Allowlist(cfg.deployOnPushBranches))
        /\ ctx.eventName \in {"pull_request", "pull_request_target"} =>
              (allowedByPolicy[1] <=>
                  ctx.baseRef \in Allowlist(cfg.deployOnPrBaseBranches))

\* a push to a branch that only the PR-base allowlist names is denied
C9_Witness ==
    /\ allowedByPolicy = Some(FALSE)
    /\ ctx.eventName = "push"
    /\ ctx.ref = <<"refs/heads/", "canary">>
    /\ <<"canary">> \in Allowlist(cfg.deployOnPrBaseBranches)
    /\ <<"feature/x">> \in Allowlist(cfg.deployOnPushBranches)

----------------------------------------------------------------------------
(* Properties of the sticky comment                                         *)

\* the non-minimized comments authored by the configured identity whose body
\* contains the start marker of the configured header
StickyComments(comments) ==
    { i \in 1..Len(comments) :
        /\ ~comments[i].isMinimized
        /\ normalizeLogin(comments[i].author) = expectedLogin(ccfg)
        /\ includes(comments[i].body, autoStart(ccfg.header)) }

FirstSticky(comments) ==
    CHOOSE i \in StickyComments(comments) :
        \A k \in StickyComments(comments) : i <= k

\* C1: in sequential runs of ensureComment on a pull request that starts with
\* at most one matching comment, every step leaves at most one non-minimized
\* comment by the configured identity that contains the start marker; a run
\* goes on to create, and a comment is added, only when no such comment
\* exists, and a run that found one reuses the first of them.
C1_SequentialRunsKeepOneSticky ==
    [][ /\ Cardinality(StickyComments(prComments')) <= 1
        /\ Len(prComments') > Len(prComments)
              => StickyComments(prComments) = {}
        /\ \A r \in Runs :
              /\ (runs[r].pc = "finding" /\ runs'[r].decision = "create")
                    => StickyComments(prComments) = {}
              /\ (runs[r].pc = "finding"
                    /\ runs'[r].decision \in {"update", "skip-unchanged"})
                    => /\ StickyComments(prComments) # {}
                       /\ runs'[r].previous_comment_id =
                             Some(prComments[FirstSticky(prComments)].id)
      ]_vars

\* the first run created the comment, the second found and rewrote it
C1_Witness ==
    /\ runs[1].pc = "done"
    /\ runs[1].decision = "create"
    /\ runs[1].created_comment_id # None
    /\ runs[2].pc = "done"
    /\ runs[2].decision = "update"
    /\ runs[2].writes > 0
    /\ runs[2].previous_comment_id = runs[1].created_comment_id
    /\ Cardinality(StickyComments(prComments)) = 1

\* C2: when runs of ensureComment interleave at their API calls, no state
\* holds two non-minimized comments by the configured identity that contain
\* the start marker.
C2_ConcurrentRunsKeepOneSticky ==
    Cardinality(StickyComments(prComments)) < 2

\* two runs in a row were given the same non-empty rendered body with
\* skipUnchanged on, and the first of them wrote the comment
SameBodyTwice ==
    /\ ccfg.skipUnchanged
    /\ runs[1].pc = "done"
    /\ runs[1].writes = 1
    /\ runs[2].pc = "done"
    /\ runs[2].body = runs[1].body
    /\ runs[2].appendOverride = runs[1].appendOverride
    /\ runs[2].body # <<>>

\* C19: with skipUnchanged on, the second of two runs in a row with the same
\* rendered body finds the comment the first one wrote, finds its inner
\* content equal to the body and writes nothing: one write in total.
C19_SecondRunWritesNothing ==
    SameBodyTwice =>
        /\ runs[2].previous_comment_id # None
        /\ runs[2].decision = "skip-unchanged"
        /\ runs[1].writes + runs[2].writes = 1

\* run r rewrote the comment it had found
Updated(r) ==
    /\ runs[r].pc = "done"
    /\ runs[r].decision = "update"
    /\ runs[r].writes = 1

\* append is requested for run r: by the override, else by the input
AppendRequested(r) ==
    IF runs[r].appendOverride # None THEN runs[r].appendOverride[1]
    ELSE ccfg.append

\* the text holds the marker pair of the configured header, start before end
HasMarkerPair(text) ==
    \E i \in 1..Len(text) : \E j \in (i + 1)..Len(text) :
        /\ text[i] = autoStart(ccfg.header)
        /\ text[j] = autoEnd(ccfg.header)

\* the content between the first start marker and the first end marker,
\* without the whitespace around it
InnerContent(text) ==
    LET i == CHOOSE k \in 1..Len(text) :
                 /\ text[k] = autoStart(ccfg.header)
                 /\ \A m \in 1..(k - 1) : text[m] # autoStart(ccfg.header)
        j == CHOOSE k \in 1..Len(text) :
                 /\ text[k] = autoEnd(ccfg.header)
                 /\ \A m \in 1..(k - 1) : text[m] # autoEnd(ccfg.header)
    IN trim(SubSeq(text, i + 1, j - 1))

\* C20: when a run rewrites the comment it found (hideDetails off), the
\* written inner content is the previous inner content, a newline and the
\* new body if append is requested and the previous body holds the marker
\* pair of the header, and the new body alone if append is not requested.
C20_AppendSemantics ==
    \A r \in Runs :
        (Updated(r) /\ ~ccfg.hideDetails /\ HasMarkerPair(runs[r].previous[1].body))
        => InnerContent(runs[r].pending) =
              IF AppendRequested(r)
              THEN trim(InnerContent(runs[r].previous[1].body)
                        \o <<"\n">> \o runs[r].body)
              ELSE trim(runs[r].body)

\* the body run r sent is the new body alone between the markers
Replaced(r) ==
    runs[r].pending = bodyWithHeader(runs[r].body, ccfg.header)

\* the text holds both marker literals of the configured header
HasBothMarkers(text) ==
    /\ \E i \in 1..Len(text) : text[i] = autoStart(ccfg.header)
    /\ \E j \in 1..Len(text) : text[j] = autoEnd(ccfg.header)

\* C21: when a run rewrites the comment it found and append is requested,
\* the update is a wholesale replace exactly when the previous body does not
\* hold both marker literals, start and end, of the configured header.
C21_ReplaceIffMarkersMissing ==
    \A r \in Runs :
        (Updated(r) /\ AppendRequested(r))
        => (Replaced(r) <=> ~HasBothMarkers(runs[r].previous[1].body))

----------------------------------------------------------------------------
(* Properties of createComment and updateComment                            *)

\* the call of createComment or updateComment has settled
WriteSettled ==
    /\ call.fn \in {"createComment", "updateComment"}
    /\ ret # None

\* the new body and the previous body of the call are both empty
BothEmpty ==
    /\ call.body = <<>>
    /\ call.previousBody \in {None, Some(<<>>)}

\* what a written text holds between its first and its last fragment, less
\* the line break after the start marker and the one before the end marker
BetweenMarkers(text) == SubSeq(text, 3, Len(text) - 2)

\* C22: a call of createComment or updateComment whose new body and previous
\* body are both empty warns and writes nothing, and a call with a non-empty
\* new body, the only kind ensureComment makes, never writes a
\* comment whose content between the markers is empty.
C22_NoEmptyComment ==
    WriteSettled =>
        /\ BothEmpty => (ret[1].warned /\ ~ret[1].wrote /\ ~ret[1].threw)
        /\ (ret[1].wrote /\ call.body # <<>>)
              => /\ ret[1].written[1] = autoStart(call.header)
                 /\ ret[1].written[Len(ret[1].written)] = autoEnd(call.header)
                 /\ BetweenMarkers(ret[1].written) # <<>>

\* updateComment was called with nothing to write and returned
C22_Witness ==
    /\ WriteSettled
    /\ call.fn = "updateComment"
    /\ BothEmpty
    /\ call.previousBody = Some(<<>>)
    /\ ~ret[1].wrote

----------------------------------------------------------------------------
(* Properties of findPreviousComment                                        *)

\* the number of the page that holds comment i, and the number of pages of
\* n comments (a pull request without comments answers one empty page)
PageOf(i) == ((i - 1) \div PageSize) + 1

PageCount(n) == IF n = 0 THEN 1 ELSE PageOf(n)

\* C23: when discovery settles without an error, it returns the first
\* comment in page and node order that is not minimized, whose author is the
\* configured identity ([bot] suffix and case aside) and whose body holds
\* the start marker, having queried the pages up to the one that holds it and
\* no further; it returns nothing only if no comment qualifies, having
\* queried every page.
C23_DiscoveryReturnsFirstMatch ==
    [][ \A r \in Runs :
          (runs[r].pc = "finding" /\ runs'[r].pc \notin {"finding", "threw"})
          => IF StickyComments(prComments) # {}
             THEN /\ runs'[r].previous =
                        Some(prComments[FirstSticky(prComments)])
                  /\ runs'[r].queries = PageOf(FirstSticky(prComments))
             ELSE /\ runs'[r].previous = None
                  /\ runs'[r].decision = "create"
                  /\ runs'[r].queries = PageCount(Len(prComments))
      ]_vars

\* the first run found the third comment, on the second page, behind a
\* quoted marker and a minimized comment and ahead of another accepted one
C23_Witness ==
    /\ runs[1].pc = "done"
    /\ runs[1].previous # None
    /\ runs[1].previous[1].id = 3
    /\ runs[1].queries = 2
    /\ prComments[2].isMinimized
    /\ Cardinality(StickyComments(prComments)) = 2

\* the call appends: it was given a previous body that is not empty
Appends == call.previousBody \notin {None, Some(<<>>)}

\* positions of the marker pair of header h in the text: the first start
\* marker and the first end marker behind it (<<0, 0>>: no such pair)
MarkerPair(text, h) ==
    IF \E i \in 1..Len(text) : \E j \in (i + 1)..Len(text) :
          text[i] = autoStart(h) /\ text[j] = autoEnd(h)
    THEN LET i == CHOOSE k \in 1..Len(text) :
                     /\ text[k] = autoStart(h)
                     /\ \A n \in 1..(k - 1) : text[n] # autoStart(h)
                     /\ \E j \in (k + 1)..Len(text) : text[j] = autoEnd(h)
             j == CHOOSE k \in (i + 1)..Len(text) :
                     /\ text[k] = autoEnd(h)
                     /\ \A n \in (i + 1)..(k - 1) : text[n] # autoEnd(h)
         IN <<i, j>>
    ELSE <<0, 0>>

\* the fragments of the text that lie outside its marker pair
OutsideMarkers(text, h) ==
    LET pair == MarkerPair(text, h)
    IN { text[k] : k \in { n \in 1..Len(text) :
                             n < pair[1] \/ n > pair[2] } }

\* C24: when updateComment or createComment appends to a previous body that
\* holds the marker pair, every piece of text of the previous body outside
\* the pair is still present in the body that is written.
C24_OutsideTextPreserved ==
    (WriteSettled /\ ret[1].wrote /\ Appends
       /\ MarkerPair(call.previousBody[1], call.header) # <<0, 0>>)
    => \A t \in OutsideMarkers(call.previousBody[1], call.header) :
          \E n \in 1..Len(ret[1].written) : ret[1].written[n] = t

\* how often fragment t occurs in the text
Occurrences(text, t) == Cardinality({n \in 1..Len(text) : text[n] = t})

\* C25: every body createComment or updateComment writes holds exactly one
\* start marker and exactly one end marker of the header, the start marker
\* ahead of the end marker.
C25_OneMarkerPairWritten ==
    (WriteSettled /\ ret[1].wrote)
    => /\ Occurrences(ret[1].written, autoStart(call.header)) = 1
       /\ Occurrences(ret[1].written, autoEnd(call.header)) = 1
       /\ indexOf(ret[1].written, autoStart(call.header))
             < indexOf(ret[1].written, autoEnd(call.header))

----------------------------------------------------------------------------
(* Properties of the order of gate and deployment                           *)

\* the allowlist of the event does not name the branch of the run
PolicyGateDenies ==
    \/ /\ ctx.eventName = "push"
       /\ BranchOfRef(ctx.ref) \notin Allowlist(cfg.deployOnPushBranches)
    \/ /\ ctx.eventName \in {"pull_request", "pull_request_target"}
       /\ ctx.baseRef \notin Allowlist(cfg.deployOnPrBaseBranches)

\* the change set was computed and none of its paths matches a glob in force
NoRelevantPath == ChangeSetComputed /\ ~SomePathMatches

\* no deployment record, no status call, no remote deploy call, no URL
NoDeploymentEffect ==
    /\ ghDeployments = <<>>
    /\ deploymentId = None
    /\ statusCalls = <<>>
    /\ rpc = "idle"
    /\ Len(outcomes) + inFlight = 0
    /\ deploymentUrlOutput = None
    /\ dret = None

\* both gates have been evaluated and let the run pass
GateSaidGo ==
    /\ ~PolicyGateDenies
    /\ allowedByPolicy = Some(TRUE)
    /\ cfg.onlyIfChanged =>
          /\ relevant # None
          /\ relevant[1] \/ cfg.checkTemplateChanges

----------------------------------------------------------------------------
(* Properties of run                                                        *)

\* the deployment was attempted and failed: the retry executor gave up
DeploymentFailed ==
    /\ dpc = "done"
    /\ rpc = "thrown"
    /\ dret = None

\* run called ensureComment for the pull request of the run
StickyCommentStageInvoked ==
    /\ \E i \in 1..Len(stages) :
          /\ stages[i].stage = "ensureComment"
          /\ stages[i].prNumber = ctx.prNumber
          /\ stages[i].body # <<>>
    /\ runs[1].pc # "idle"

\* C27: a pull-request run with post_skip_comment on whose deployment failed,
\* on a non-retryable error or after the last attempt, does not
\* end before it has called the sticky-comment stage for that pull request.
C27_FailedDeployStillComments ==
    (mpc = "done" /\ DeploymentFailed /\ isPullRequestRun
       /\ minputs.postSkipComment)
    => StickyCommentStageInvoked

\* the deployment failed on its first attempt, and the run has ended with the
\* sticky comment of the pull request written
C27_Witness ==
    /\ mpc = "done"
    /\ DeploymentFailed
    /\ Len(outcomes) = 1
    /\ isPullRequestRun
    /\ minputs.postSkipComment
    /\ StickyCommentStageInvoked
    /\ runs[1].writes = 1

\* run r leaves discovery with an answer in this step
DiscoveryAnswers(r) ==
    /\ runs[r].pc = "finding"
    /\ runs'[r].pc \in {"done", "creating", "updating"}

\* C28: the outputs of the comment stage. When discovery answers,
\* previous_comment_id is the id of the comment it found and stays unset when
\* it found none; created_comment_id changes only in the step of a creating
\* run that adds the comment, then holds the id of the added comment, and
\* every added comment is reported by the run that added it; a run that
\* decided to update or to skip never has created_comment_id set.
C28_RunOutputs ==
    [][ \A r \in Runs :
          /\ DiscoveryAnswers(r) =>
                runs'[r].previous_comment_id =
                    IF StickyComments(prComments) = {}
                    THEN None
                    ELSE Some(prComments[FirstSticky(prComments)].id)
          /\ runs'[r].created_comment_id # runs[r].created_comment_id =>
                /\ runs[r].pc = "creating"
                /\ runs[r].decision = "create"
                /\ runs[r].previous_comment_id = None
                /\ Len(prComments') = Len(prComments) + 1
                /\ runs'[r].created_comment_id =
                      Some(prComments'[Len(prComments')].id)
          /\ (runs[r].pc = "creating" /\ Len(prComments') > Len(prComments))
                => runs'[r].created_comment_id # None
          /\ runs'[r].decision \in {"update", "skip-unchanged", "skip-empty"}
                => runs'[r].created_comment_id = None
      ]_vars

\* one run found nothing and reported the comment it created, the next one
\* reported the comment it found and rewrote, and created none
C28_Witness ==
    /\ runs[1].pc = "done"
    /\ runs[1].previous_comment_id = None
    /\ runs[1].created_comment_id = Some(Len(prComments))
    /\ runs[2].pc = "done"
    /\ runs[2].decision \in {"update", "skip-unchanged"}
    /\ runs[2].previous_comment_id = Some(Len(prComments))
    /\ runs[2].created_comment_id = None

\* the step has computed branch, targetHint and environmentName
EnvironmentNamed == gate = "go"

\* the name is the literal 'preview/' followed by the branch
PreviewOf(name, b) ==
    /\ name # <<>>
    /\ Head(name) = "preview/"
    /\ Tail(name) = b

\* C29: once performVercelDeployment has computed it, the environment name
\* is 'production' when the target is production or the branch is main and
\* 'preview/<branch>' in every other case; every deployment record carries
\* that name, is transient exactly when the name is not 'production', and is
\* a production environment exactly when it is.
C29_EnvironmentNameAndTransience ==
    /\ EnvironmentNamed =>
          IF targetHint = <<"production">> \/ branch = <<"main">>
          THEN environmentName = <<"production">>
          ELSE PreviewOf(environmentName, branch)
    /\ \A i \in 1..Len(ghDeployments) :
          /\ EnvironmentNamed
          /\ ghDeployments[i].environment = environmentName
          /\ ghDeployments[i].transient_environment
                <=> ghDeployments[i].environment # <<"production">>
          /\ ghDeployments[i].production_environment
                <=> ghDeployments[i].environment = <<"production">>

\* a record was created for a staging deployment of a feature branch: a
\* transient preview environment
C29_Witness ==
    /\ Len(ghDeployments) = 1
    /\ targetHint = <<"staging">>
    /\ branch = <<"feature/x">>
    /\ ghDeployments[1].environment = <<"preview/", "feature/x">>
    /\ ghDeployments[1].transient_environment
    /\ ~ghDeployments[1].production_environment

\* C30: the result shouldDeployByPolicy returned on a push event is the
\* result it returns under every other value of the PR-base allowlist, and
\* the result it returned on a pull-request event is the result it returns
\* under every other value of the push allowlist.
C30_PolicyChecksIndependent ==
    allowedByPolicy # None =>
        /\ ctx.eventName = "push" =>
              \A other \in PolicyCsvInputs :
                  shouldDeployByPolicy(ctx, cfg.deployOnPushBranches, other)
                      = allowedByPolicy[1]
        /\ ctx.eventName \in {"pull_request", "pull_request_target"} =>
              \A other \in PolicyCsvInputs :
                  shouldDeployByPolicy(ctx, other, cfg.deployOnPrBaseBranches)
                      = allowedByPolicy[1]

\* a pull request into feature/x is allowed by the PR-base allowlist while
\* the push allowlist, left at its default, does not name that branch
C30_Witness ==
    /\ allowedByPolicy = Some(TRUE)
    /\ ctx.eventName = "pull_request"
    /\ ctx.baseRef = <<"feature/x">>
    /\ ctx.ref = <<"refs/heads/", "feature/x">>
    /\ cfg.deployOnPrBaseBranches = <<"feature/x">>
    /\ cfg.deployOnPushBranches = <<>>

\* the calls of deployToVercel made so far
DeployCalls == Len(outcomes) + inFlight

\* C31: in one run deployToVercel is called at most 3 times and at most one
\* deployment record is created, and once the run has left the deployment
\* step, the comment stage and its failure included, no step calls
\* deployToVercel or creates a record again.
C31_DeployOncePerRun ==
    [][ /\ DeployCalls' <= 3
        /\ Len(ghDeployments') <= 1
        /\ mpc # "deploying" =>
              /\ DeployCalls' = DeployCalls
              /\ ghDeployments' = ghDeployments
              /\ mpc' # "deploying"
      ]_vars

\* the deploy succeeded at its third call, the comment stage then failed and
\* the run ended: three calls, one record
C31_Witness ==
    /\ mpc = "done"
    /\ runs[1].pc = "threw"
    /\ DeployCalls = 3
    /\ outcomes[3].ok
    /\ Len(ghDeployments) = 1

CommentDecisions == {"skip-empty", "skip-unchanged", "create", "update"}

\* C32: every ensureComment invocation that returns has taken exactly one of
\* the four decisions and keeps it; it writes at most once: not at all
\* after a skip decision or when it throws, once when it returns after a
\* create or an update decision; a write by a creating run adds one comment,
\* a write by an updating run adds none, and the comments change only in
\* the single write of some run.
C32_OneDecisionOneWrite ==
    [][ /\ \A r \in Runs :
            /\ runs'[r].pc = "done" => runs'[r].decision \in CommentDecisions
            /\ runs[r].decision # "none"
                  => runs'[r].decision = runs[r].decision
            /\ runs'[r].writes <= 1
            /\ runs'[r].decision \in {"skip-empty", "skip-unchanged"}
                  => runs'[r].writes = 0
            /\ runs'[r].pc = "threw" => runs'[r].writes = 0
            /\ (runs'[r].pc = "done"
                  /\ runs'[r].decision \in {"create", "update"})
                  => runs'[r].writes = 1
            /\ runs'[r].writes # runs[r].writes =>
                  /\ runs'[r].pc = "done"
                  /\ runs[r].decision = "create"
                        => Len(prComments') = Len(prComments) + 1
                  /\ runs[r].decision = "update"
                        => Len(prComments') = Len(prComments)
        /\ prComments' # prComments
              => \E r \in Runs : runs'[r].writes = runs[r].writes + 1
      ]_vars

\* one invocation found the comment and rewrote it in one write, the next
\* found its content unchanged and wrote nothing
C32_Witness ==
    /\ runs[1].pc = "done"
    /\ runs[1].decision = "update"
    /\ runs[1].writes = 1
    /\ runs[2].pc = "done"
    /\ runs[2].decision = "skip-unchanged"
    /\ runs[2].writes = 0
    /\ runs[2].previous_comment_id = runs[1].previous_comment_id

\* the domains of the alias requests sent, in order
AliasRequests == [i \in 1..Len(aliasLog) |-> aliasLog[i].domain]

\* the configured trigger branch is the branch getBranch resolves
TriggerMatches == vopts.aliasBranch = getBranch(vopts.env)

\* the configured candidates: the single alias domain, then the list
ConfiguredCandidates ==
    (IF vopts.aliasDomain # <<>> THEN <<vopts.aliasDomain>> ELSE <<>>)
    \o vopts.aliasDomains

\* a candidate with its tokens substituted: the slug of the head ref, or of
\* the ref without refs/heads/, and the PR number when there is one
Substituted(d) ==
    LET ref == IF vopts.env.GITHUB_HEAD_REF # <<>>
               THEN vopts.env.GITHUB_HEAD_REF ELSE vopts.env.GITHUB_REF
        slug == slugify(replaceFirst(ref, "refs/heads/"))
        d1 == replaceAll(d, BRANCH_TPL_RE, slug)
    IN IF vopts.env.GITHUB_PR_NUMBER # <<>>
       THEN replaceAll(d1, PR_TPL_RE, vopts.env.GITHUB_PR_NUMBER)
       ELSE d1

Resolved(d) == ~includesOpenBraces(d)

\* C33: when deployToVercel returns, the alias requests it sent are none
\* unless the trigger branch equals the resolved branch, and are otherwise
\* the configured candidates, in order, with {{BRANCH}} and (with a PR
\* number) {{PR_NUMBER}} substituted, leaving out every candidate that still
\* contains an unresolved token.
C33_AliasRequestsAsConfigured ==
    vpc = "returned" =>
        AliasRequests =
            IF TriggerMatches
            THEN SelectSeq([i \in 1..Len(ConfiguredCandidates) |->
                               Substituted(ConfiguredCandidates[i])],
                           Resolved)
            ELSE <<>>

\* C34: when executeWithRetry ends, by returning or by throwing, it has
\* invoked the operation at least once, whatever maxRetries is, and the error
\* it throws is the error one of its invocations raised.
C34_AttemptsAtLeastOnce ==
    /\ rpc \in {"returned", "thrown"} => Attempts >= 1
    /\ thrown # None =>
          \E i \in 1..Len(outcomes) :
              /\ ~outcomes[i].ok
              /\ thrown = Some(outcomes[i].error)

\* the target deployToVercel sends in this run: options.target is the
\* targetHint of performVercelDeployment, the environment that of the run
TargetSent ==
    targetOfDeploy(targetHint, [GITHUB_REF |-> ctx.ref,
                                GITHUB_HEAD_REF |-> ctx.headRef])

\* C35: every deployment record is named 'production' exactly when the
\* target the run passes to the remote deploy is production, whatever the
\* explicit target and the branch are.
C35_RecordAgreesWithTarget ==
    \A i \in 1..Len(ghDeployments) :
        ghDeployments[i].environment = <<"production">>
            <=> TargetSent = <<"production">>

\* C36: for the ref and head ref deployToVercel was called under,
\* resolveBranch() returns the branch getBranch(env) returned.
C36_BranchResolversAgree ==
    (call.fn = "deployToVercel" /\ ret # <<>>) =>
        ret[1].branch = resolveBranch([ref |-> call.env.GITHUB_REF,
                                       headRef |-> call.env.GITHUB_HEAD_REF])

\* performVercelDeployment returned a deployment URL
DeploySucceededInRun == dpc = "done" /\ ~noDeploymentUrl

\* C37: in a run without a pull request number whose deployment succeeded,
\* ensureComment is never called and its comment discovery never starts,
\* whatever comment_on_push is and whether or not createCommitComment
\* succeeds.
C37_NoStickyPathWithoutPullRequest ==
    (~isPullRequestRun /\ DeploySucceededInRun) =>
        /\ \A i \in 1..Len(stages) : stages[i].stage # "ensureComment"
        /\ runs[1].pc = "idle"

\* run r has its answer from findPreviousComment
DiscoveryAnswered(r) == runs[r].pc \in {"done", "creating", "updating"}

\* C38: when the first of two runs with the same configuration created the
\* comment, findPreviousComment of the second run returns that comment,
\* also under an author_login that is not the login of the token that
\* authored it.
C38_CreatedCommentFoundNextRun ==
    ( /\ runs[1].pc = "done"
      /\ runs[1].created_comment_id # None
      /\ DiscoveryAnswered(2)
      /\ runs[2].decision # "skip-empty" )
    => runs[2].previous_comment_id = runs[1].created_comment_id

\* what each allowlist input stands for: the default for a missing or empty
\* input, else its comma-separated entries, trimmed, the empty ones dropped
EntriesOfInput(csv) ==
    CASE csv = <<>> -> { <<"main">>, <<"canary">> }
      [] csv = <<"main", ",", "canary">> -> { <<"main">>, <<"canary">> }
      [] csv = <<" ", "main", " ", ",", " ", "canary", " ">>
            -> { <<"main">>, <<"canary">> }
      [] csv = <<"main", ",", ",", "feature/x", ",">>
            -> { <<"main">>, <<"feature/x">> }
      [] csv = <<"feature/x">> -> { <<"feature/x">> }
      [] csv = <<",", " ">> -> {}

\* the allowlist input and the branch the policy looks at for this event
InputForEvent ==
    IF isPR(ctx) THEN cfg.deployOnPrBaseBranches ELSE cfg.deployOnPushBranches

BranchForEvent ==
    IF isPR(ctx) THEN ctx.baseRef ELSE BranchOfRef(ctx.ref)

\* C39: the policy gate allows the run exactly when the branch of its event
\* is among the entries of the allowlist input for that event, where a
\* missing or empty input stands for main and canary, and any other input
\* for its comma-separated entries, trimmed, without the empty ones; so an
\* empty input allows main and canary, and an input of separators alone
\* allows nothing.
C39_EmptyAllowlistIsDefault ==
    allowedByPolicy # None =>
        /\ allowedByPolicy[1] <=> BranchForEvent \in EntriesOfInput(InputForEvent)
        /\ (InputForEvent = <<>> /\ BranchForEvent \in { <<"main">>, <<"canary">> })
              => allowedByPolicy[1]
        /\ InputForEvent = <<",", " ">> => ~allowedByPolicy[1]

\* a push to canary with the push allowlist left empty is allowed
C39_Witness ==
    /\ allowedByPolicy = Some(TRUE)
    /\ ctx.eventName = "push"
    /\ ctx.ref = <<"refs/heads/", "canary">>
    /\ cfg.deployOnPushBranches = <<>>
    /\ cfg.deployOnPrBaseBranches = <<"feature/x">>

=============================================================================
